---- MODULE Spec2Model ----
(***************************************************************************)
(* Name allocation and the versioned checkpoint store of                   *)
(* persistent_storage_system.                                              *)
(*                                                                         *)
(*   SpecAlloc  helpers_storage.novel_start_of_folder on one parent folder *)
(*   SpecStore  MLStorage (shared_storage3.py): initial_setup,             *)
(*              change_phase, save_checkpoint, load_checkpoint, on top of  *)
(*              singleton_storage_fns.main/setup, the yaml/json handlers   *)
(*              and get_no_overwrite_path                                  *)
(*   SpecCrash  SpecStore plus the process dying inside a handler          *)
(*   SpecProject MLProjectStorage (shared_storage2.py), the second         *)
(*              checkpoint store of the repository                         *)
(*   SpecResolve helpers_storage.get_no_overwrite_path and a caller that   *)
(*              writes at the path it was given                            *)
(*   SpecBackup helpers_storage.make_non_duplicate_backups                 *)
(*   SpecDocs   yaml_handler and json_handler: get_yaml, write_yaml,       *)
(*              get_json, write_json                                       *)
(*   SpecRoots  singleton_storage_fns.main and persistent_storage_fns.main *)
(*   SpecSetup  setup of both modules on a root in any state               *)
(*   SpecSimple SimpleMLStorage (final_shared_storage.py): setup, load,    *)
(*              save                                                       *)
(*   SpecAnumFair helpers_storage.novel_folder_anum on a parent with one   *)
(*              free name                                                  *)
(*   SpecTree   a longer MLStorage session on one root                     *)
(*   SpecReuse  SpecAlloc plus folders removed from outside                *)
(*   SpecAnumAny novel_folder_anum and novel_filename_anum on any parent   *)
(*   SpecRace   two processes inside novel_start_of_folder on one parent   *)
(*   SpecInit   two processes opening one fresh root                       *)
(*   SpecSessions two MLStorage sessions that open, use and leave one root *)
(*   SpecPaths  AllPaths (shared_storage.py): set_files_folder and the     *)
(*              IS_FULLY_INITIALIZED flag                                  *)
(*                                                                         *)
(* Paths are strings, built as the code builds them.  A Python dict is a   *)
(* function whose domain is its key set; None is the string "None".        *)
(***************************************************************************)
EXTENDS Integers, Sequences, FiniteSets, TLC

(***************************************************************************)
(* Bounds of the model.                                                    *)
(***************************************************************************)
\* calls of novel_start_of_folder with the first label: enough to exhaust
\* the un-prefixed band 999..100 and enter the '#' band
MaxAllocs == 903
\* calls of novel_start_of_folder with the other label
MaxOtherAllocs == 1
\* operations of one run of the store that read the clock (setups, phase
\* changes, saves)
MaxClock == 3
\* iterations of the while loop evaluated per recursion chunk
ChunkLen == 100

(***************************************************************************)
(* Python dicts.                                                           *)
(***************************************************************************)
EmptyMap == [k \in {} |-> k]

Has(m, k) == k \in DOMAIN m

Put(m, k, v) == [j \in DOMAIN m \cup {k} |-> IF j = k THEN v ELSE m[j]]

Get(m, k, default) == IF k \in DOMAIN m THEN m[k] ELSE default

Remove(m, k) == [j \in DOMAIN m \ {k} |-> m[j]]

(***************************************************************************)
(* helpers_storage.py: novel_start_of_folder                               *)
(***************************************************************************)
CounterStart == 999
CounterFloor == 100

\* f"{prefix}{counter}_{semantic_id}"
FolderName(prefix, counter, semantic_id) ==
    prefix \o ToString(counter) \o "_" \o semantic_id

\* a loop that starts one below the top counter
LoopStartBelowTop(semantic_id) ==
    [prefix |-> "", counter |-> CounterStart - 1,
     folder_path |-> FolderName("", CounterStart - 1, semantic_id)]

\* the loop variables after line 27
LoopStart(semantic_id) ==
    [prefix |-> "", counter |-> CounterStart,
     folder_path |-> FolderName("", CounterStart, semantic_id)]

\* one iteration of the while body, lines 29-34: the path is rebuilt from the
\* decremented counter and the old prefix BEFORE the overflow test
LoopBody(s, semantic_id) ==
    LET c1 == s.counter - 1 IN
    IF c1 <= CounterFloor
    THEN [prefix |-> s.prefix \o "#", counter |-> CounterStart,
          folder_path |-> FolderName(s.prefix, c1, semantic_id)]
    ELSE [prefix |-> s.prefix, counter |-> c1,
          folder_path |-> FolderName(s.prefix, c1, semantic_id)]

\* at most `fuel` iterations of `while osp.exists(folder_path)`
RECURSIVE RunLoop(_, _, _, _)
RunLoop(existing, s, semantic_id, fuel) ==
    IF fuel = 0 \/ s.folder_path \notin existing THEN s
    ELSE RunLoop(existing, LoopBody(s, semantic_id), semantic_id, fuel - 1)

\* the while loop of lines 28-34, run chunk by chunk until the path is free
RECURSIVE WhileExists(_, _, _)
WhileExists(existing, s, semantic_id) ==
    IF s.folder_path \notin existing THEN s
    ELSE WhileExists(existing, RunLoop(existing, s, semantic_id, ChunkLen), semantic_id)

\* the same function with the probing loop left out
NovelStartNameNoProbe(existing, semantic_id) ==
    LoopStart(semantic_id).folder_path

\* the name novel_start_of_folder picks in a parent holding `existing`
NovelStartName(existing, semantic_id) ==
    WhileExists(existing, LoopStart(semantic_id), semantic_id).folder_path

(***************************************************************************)
(* helpers_storage.py: get_no_overwrite_path                               *)
(***************************************************************************)
\* file_path_no_suffix + f"_{add_id}{suffix}"
SuffixedPath(file_path_no_suffix, add_id, suffix) ==
    file_path_no_suffix \o "_" \o ToString(add_id) \o suffix

\* a probe that tests the first numbered path only: an if in place of the while
ProbeAddIdOnce(existing, file_path_no_suffix, suffix, add_id) ==
    SuffixedPath(file_path_no_suffix, add_id, suffix)

\* while osp.exists(file_path): add_id += 1; ...
RECURSIVE ProbeAddId(_, _, _, _)
ProbeAddId(existing, file_path_no_suffix, suffix, add_id) ==
    IF SuffixedPath(file_path_no_suffix, add_id, suffix) \notin existing
    THEN SuffixedPath(file_path_no_suffix, add_id, suffix)
    ELSE ProbeAddId(existing, file_path_no_suffix, suffix, add_id + 1)

\* a resolver that hands the requested path back whether or not it exists
NoOverwritePathUnchecked(existing, file_path_no_suffix, suffix) ==
    [file_path |-> file_path_no_suffix \o suffix,
     old_file_path |-> file_path_no_suffix \o suffix]

\* returns (file_path, old_file_path)
get_no_overwrite_path(existing, file_path_no_suffix, suffix) ==
    LET old_file_path == file_path_no_suffix \o suffix IN
    [file_path |-> IF old_file_path \in existing
                   THEN ProbeAddId(existing, file_path_no_suffix, suffix, 1)
                   ELSE old_file_path,
     old_file_path |-> old_file_path]

(***************************************************************************)
(* helpers_storage.py: make_non_duplicate_backups.  A path is a pair       *)
(* <<folder, file name>>; tree maps the paths that exist to their content. *)
(***************************************************************************)
\* osp.basename(path)
basename(path) == path[2]

\* osp.join(path_to_backup_folder, file_name)
join(folder, file_name) == <<folder, file_name>>

\* a loop body that copies over a same-named backup
BackupStepOverwrites(tree, path, path_to_backup_folder) ==
    LET backup_path == join(path_to_backup_folder, basename(path)) IN
    IF path \notin DOMAIN tree
    THEN [tree |-> tree, did |-> "None"]
    ELSE [tree |-> Put(tree, backup_path, tree[path]), did |-> "True"]

\* a loop body that moves the source in place of copying it
BackupStepMoves(tree, path, path_to_backup_folder) ==
    LET backup_path == join(path_to_backup_folder, basename(path)) IN
    IF path \notin DOMAIN tree
    THEN [tree |-> tree, did |-> "None"]
    ELSE IF backup_path \in DOMAIN tree
    THEN [tree |-> tree, did |-> "False"]
    ELSE [tree |-> Remove(Put(tree, backup_path, tree[path]), path), did |-> "True"]

\* a loop body that reports a copy it did not make
BackupStepNoCopy(tree, path, path_to_backup_folder) ==
    LET backup_path == join(path_to_backup_folder, basename(path)) IN
    IF path \notin DOMAIN tree
    THEN [tree |-> tree, did |-> "None"]
    ELSE IF backup_path \in DOMAIN tree
    THEN [tree |-> tree, did |-> "False"]
    ELSE [tree |-> tree, did |-> "True"]

\* the body of the for loop: None for a missing source, False when the
\* backup path exists, otherwise makedirs, sh.copy2 and True
BackupStep(tree, path, path_to_backup_folder) ==
    LET backup_path == join(path_to_backup_folder, basename(path)) IN
    IF path \notin DOMAIN tree
    THEN [tree |-> tree, did |-> "None"]
    ELSE IF backup_path \in DOMAIN tree
    THEN [tree |-> tree, did |-> "False"]
    ELSE [tree |-> Put(tree, backup_path, tree[path]), did |-> "True"]

\* for path in path_list: ...; seen[i] is the tree the i-th entry was
\* processed on
RECURSIVE BackupLoop(_, _, _, _)
BackupLoop(acc, path_list, path_to_backup_folder, i) ==
    IF i > Len(path_list) THEN acc
    ELSE LET step == BackupStep(acc.tree, path_list[i], path_to_backup_folder) IN
         BackupLoop([tree |-> step.tree,
                     did_backup |-> Append(acc.did_backup, step.did),
                     seen |-> Append(acc.seen, acc.tree)],
                    path_list, path_to_backup_folder, i + 1)

\* did_backup = []; the loop; return did_backup
make_non_duplicate_backups(tree, path_list, path_to_backup_folder) ==
    BackupLoop([tree |-> tree, did_backup |-> <<>>, seen |-> <<>>],
               path_list, path_to_backup_folder, 1)

(***************************************************************************)
(* yaml_handler.py, json_handler.py: a document file is absent, empty, or  *)
(* holds the text the writer dumped for a mapping.                         *)
(***************************************************************************)
AbsentDoc == [st |-> "absent", data |-> EmptyMap]

\* write_yaml / write_json with no_overwrite=False: the target is replaced
DumpDoc(mapping) == [st |-> "text", data |-> mapping]

\* get_yaml / get_json: a missing or an empty file reads as {}
LoadDoc(doc) == IF doc.st = "text" THEN doc.data ELSE EmptyMap

\* an existence test that never finds the document
DocExistsNever(doc) == FALSE

DocExists(doc) == doc.st # "absent"

(***************************************************************************)
(* yaml_handler.py, json_handler.py on arbitrary documents.  A mapping is  *)
(* a function from keys (a string or an integer) to values (a string, a    *)
(* list or a tuple); a file is empty or holds the text a dump produced;    *)
(* docs maps the paths that exist to their file.  Parent folders are       *)
(* implicit in the path strings, as os.makedirs(..., exist_ok=True) makes  *)
(* whatever is missing.                                                    *)
(***************************************************************************)
StrKey(name) == [k |-> "str", name |-> name]

IntKey(name) == [k |-> "int", name |-> name]

StrVal(str_value) == [t |-> "str", v |-> <<str_value>>]

ListVal(items) == [t |-> "list", v |-> items]

TupleVal(items) == [t |-> "tuple", v |-> items]

\* the path argument of a writer: a str or a pathlib.Path
StrPath(path_str) == [type |-> "str", s |-> path_str]

PurePath(path_str) == [type |-> "Path", s |-> path_str]

\* str(file_path_no_suffix)
str(path) == path.s

EmptyFile == [st |-> "empty", text |-> EmptyMap]

TextFile(text) == [st |-> "text", text |-> text]

\* yaml.dump: every value gets the node of its type, a tuple the
\* python/tuple tag; keys keep their type
yaml_dump(yaml_dict) ==
    [key \in DOMAIN yaml_dict |->
        [tag |-> CASE yaml_dict[key].t = "str" -> "!!str"
                   [] yaml_dict[key].t = "list" -> "!!seq"
                   [] yaml_dict[key].t = "tuple" -> "!!python/tuple",
         v |-> yaml_dict[key].v]]

\* yaml.safe_load constructs the standard tags only
SafeConstructible(text) ==
    \A key \in DOMAIN text : text[key].tag \in {"!!str", "!!seq"}

yaml_safe_load(text) ==
    [key \in DOMAIN text |->
        [t |-> IF text[key].tag = "!!str" THEN "str" ELSE "list",
         v |-> text[key].v]]

\* orjson.dumps raises TypeError on a key that is not a str
Serializable(json_dict) == \A key \in DOMAIN json_dict : key.k = "str"

\* orjson.dumps: a JSON object; a list and a tuple both become an array
orjson_dumps(json_dict) ==
    [name \in {key.name : key \in DOMAIN json_dict} |->
        [j |-> IF json_dict[StrKey(name)].t = "str" THEN "string" ELSE "array",
         v |-> json_dict[StrKey(name)].v]]

\* orjson.loads: an array becomes a list
orjson_loads(text) ==
    [key \in {StrKey(name) : name \in DOMAIN text} |->
        [t |-> IF text[key.name].j = "string" THEN "str" ELSE "list",
         v |-> text[key.name].v]]

\* get_yaml(path): {} for a missing path and for an empty file
get_yaml(docs, path) ==
    IF path \in DOMAIN docs
    THEN IF docs[path].st = "empty"
         THEN [outcome |-> "ok", value |-> EmptyMap]
         ELSE IF SafeConstructible(docs[path].text)
         THEN [outcome |-> "ok", value |-> yaml_safe_load(docs[path].text)]
         ELSE [outcome |-> "ConstructorError", value |-> EmptyMap]
    ELSE [outcome |-> "ok", value |-> EmptyMap]

\* a reader without the except clause
get_json_strict(docs, path) ==
    IF path \in DOMAIN docs
    THEN IF docs[path].st = "empty"
         THEN [outcome |-> "JSONDecodeError", value |-> EmptyMap]
         ELSE [outcome |-> "ok", value |-> orjson_loads(docs[path].text)]
    ELSE [outcome |-> "ok", value |-> EmptyMap]

\* get_json(path): {} for a missing path and on orjson.JSONDecodeError
get_json(docs, path) ==
    IF path \in DOMAIN docs
    THEN IF docs[path].st = "empty"
         THEN [outcome |-> "ok", value |-> EmptyMap]
         ELSE [outcome |-> "ok", value |-> orjson_loads(docs[path].text)]
    ELSE [outcome |-> "ok", value |-> EmptyMap]

\* a write that adds the new entries to the text already in the file
StoreTextMerged(docs, file_path, text) ==
    IF file_path \in DOMAIN docs
    THEN Put(docs, file_path,
             TextFile([key \in DOMAIN docs[file_path].text \cup DOMAIN text |->
                          IF key \in DOMAIN text THEN text[key]
                          ELSE docs[file_path].text[key]]))
    ELSE Put(docs, file_path, TextFile(text))

\* with open(file_path, 'w') as file: the dump goes into the truncated file
StoreText(docs, file_path, text) == Put(docs, file_path, TextFile(text))

\* file_path = str(file_path_no_suffix) + str(suffix); under no_overwrite
\* with the target present, file_path_no_suffix + f"_{add_id}{suffix}",
\* which is a TypeError when file_path_no_suffix is a pathlib.Path
WriterTarget(docs, file_path_no_suffix, suffix, no_overwrite) ==
    LET file_path == str(file_path_no_suffix) \o suffix IN
    IF no_overwrite /\ file_path \in DOMAIN docs
    THEN IF file_path_no_suffix.type = "str"
         THEN [outcome |-> "ok",
               file_path |-> ProbeAddId(DOMAIN docs, str(file_path_no_suffix), suffix, 1)]
         ELSE [outcome |-> "TypeError", file_path |-> file_path]
    ELSE [outcome |-> "ok", file_path |-> file_path]

\* write_yaml(yaml_dict, file_path_no_suffix, suffix, no_overwrite)
write_yaml(docs, yaml_dict, file_path_no_suffix, suffix, no_overwrite) ==
    LET target == WriterTarget(docs, file_path_no_suffix, suffix, no_overwrite) IN
    IF target.outcome # "ok"
    THEN [outcome |-> target.outcome, file_path |-> target.file_path, docs |-> docs]
    ELSE [outcome |-> "ok", file_path |-> target.file_path,
          docs |-> StoreText(docs, target.file_path, yaml_dump(yaml_dict))]

\* write_json(json_dict, file_path_no_suffix, suffix, no_overwrite): the
\* file is opened 'wb' before orjson.dumps runs, so a TypeError of dumps
\* leaves it empty
write_json(docs, json_dict, file_path_no_suffix, suffix, no_overwrite) ==
    LET target == WriterTarget(docs, file_path_no_suffix, suffix, no_overwrite) IN
    IF target.outcome # "ok"
    THEN [outcome |-> target.outcome, file_path |-> target.file_path, docs |-> docs]
    ELSE IF ~Serializable(json_dict)
    THEN [outcome |-> "TypeError", file_path |-> target.file_path,
          docs |-> Put(docs, target.file_path, EmptyFile)]
    ELSE [outcome |-> "ok", file_path |-> target.file_path,
          docs |-> StoreText(docs, target.file_path, orjson_dumps(json_dict))]

(***************************************************************************)
(* singleton_storage_fns.py: main and setup on one root directory.         *)
(* A root is a record: dir (the directory exists), the four documents,     *)
(* the two subfolders, and the files under files/ (name -> content).       *)
(***************************************************************************)
AbsentRoot ==
    [dir |-> FALSE, main |-> AbsentDoc, shared |-> AbsentDoc, tree |-> AbsentDoc,
     db |-> AbsentDoc, old_yamls |-> FALSE, files_dir |-> FALSE, files |-> EmptyMap]

\* a setup that writes {} to every document without the osp.exists tests
SetupOverwrites(d) ==
    [d EXCEPT !.main = DumpDoc(EmptyMap),
              !.shared = DumpDoc(EmptyMap),
              !.tree = DumpDoc(EmptyMap),
              !.db = DumpDoc(EmptyMap),
              !.old_yamls = TRUE,
              !.files_dir = TRUE]

\* a setup that forgets the two os.makedirs
SetupWithoutFolders(d) ==
    [d EXCEPT !.main = IF DocExists(@) THEN @ ELSE DumpDoc(EmptyMap),
              !.shared = IF DocExists(@) THEN @ ELSE DumpDoc(EmptyMap),
              !.tree = IF DocExists(@) THEN @ ELSE DumpDoc(EmptyMap),
              !.db = IF DocExists(@) THEN @ ELSE DumpDoc(EmptyMap)]

\* setup(path): each document is created as {} unless it exists; makedirs
setup(d) ==
    [d EXCEPT !.main = IF DocExists(@) THEN @ ELSE DumpDoc(EmptyMap),
              !.shared = IF DocExists(@) THEN @ ELSE DumpDoc(EmptyMap),
              !.tree = IF DocExists(@) THEN @ ELSE DumpDoc(EmptyMap),
              !.db = IF DocExists(@) THEN @ ELSE DumpDoc(EmptyMap),
              !.old_yamls = TRUE,
              !.files_dir = TRUE]

\* main(path, path_is_only_to_container=False): an existing path is returned
\* as it is, a missing one is created and set up
main_exact(d) ==
    IF ~d.dir THEN setup([d EXCEPT !.dir = TRUE]) ELSE d

(***************************************************************************)
(* Objects handed to save_checkpoint: opaque values, with an optional      *)
(* prepare_for_save hook, that pickle may refuse.                          *)
(***************************************************************************)
PyNone ==
    [val |-> "None", hook |-> FALSE, ready |-> FALSE, picklable |-> TRUE, nbytes |-> 0]

ModelDict ==
    [val |-> "model_dict", hook |-> FALSE, ready |-> FALSE, picklable |-> TRUE, nbytes |-> 64]

TrainedModelDict ==
    [val |-> "trained_model_dict", hook |-> FALSE, ready |-> FALSE, picklable |-> TRUE, nbytes |-> 96]

TrainingLogs ==
    [val |-> "training_logs", hook |-> TRUE, ready |-> FALSE, picklable |-> TRUE, nbytes |-> 128]

Unpicklable ==
    [val |-> "open_handle", hook |-> FALSE, ready |-> FALSE, picklable |-> FALSE, nbytes |-> 0]

\* TrainingLogs.prepare_for_save: self.is_ready_for_save = True
prepare_for_save(obj) == [obj EXCEPT !.ready = TRUE]

\* if hasattr(obj, 'prepare_for_save'): obj.prepare_for_save()
AfterHook(obj) == IF obj.hook THEN prepare_for_save(obj) ELSE obj

\* the file pickle.dump(obj, f) leaves behind
Pickle(obj) == [complete |-> TRUE, obj |-> obj]

\* the file left by open(final_path, 'wb') when pickle.dump raises
TruncatedFile == [complete |-> FALSE, obj |-> PyNone]

\* pickle.load(f)
Unpickle(blob) == blob.obj

\* os.path.getsize
getsize(blob) == IF blob.complete THEN blob.obj.nbytes ELSE 0

(***************************************************************************)
(* shared_storage3.py: MLStorage, the process-wide singleton.              *)
(***************************************************************************)
\* ProjectPhase
Phases == {"setup", "training", "evaluation", "ready"}

\* the fields MLStorage.__init__ sets (the paths all derive from
\* project_path and are set together with it)
InitMem ==
    [project_path |-> "None", main_config |-> EmptyMap, shared_storage |-> EmptyMap,
     file_tree |-> EmptyMap, checkpoint_db |-> EmptyMap, current_phase |-> "setup"]

\* a restore that always falls back to SETUP
RestoredPhaseSetup(value) == "setup"

\* ProjectPhase(value), ValueError caught: fall back to SETUP
RestoredPhase(value) == IF value \in Phases THEN value ELSE "setup"

\* _load_all_state: a document that does not exist leaves the field as it is
_load_all_state(m, d) ==
    LET shared == IF DocExists(d.shared) THEN LoadDoc(d.shared) ELSE m.shared_storage IN
    [m EXCEPT !.main_config = IF DocExists(d.main) THEN LoadDoc(d.main) ELSE @,
              !.shared_storage = shared,
              !.current_phase = IF DocExists(d.shared) /\ Has(shared, "current_phase")
                                THEN RestoredPhase(shared["current_phase"]) ELSE @,
              !.file_tree = IF DocExists(d.tree) THEN LoadDoc(d.tree) ELSE @,
              !.checkpoint_db = IF DocExists(d.db) THEN LoadDoc(d.db) ELSE @]

\* a _save_all_state that reads the index on disk and adds its own entries
\* to it, instead of replacing it
_save_all_state_merging(m, d, writes) ==
    IF m.project_path = "None" THEN d
    ELSE [d EXCEPT !.main = IF writes >= 1 THEN DumpDoc(m.main_config) ELSE @,
                   !.shared = IF writes >= 2 THEN DumpDoc(m.shared_storage) ELSE @,
                   !.tree = IF writes >= 3 THEN DumpDoc(m.file_tree) ELSE @,
                   !.db = IF writes >= 4
                          THEN DumpDoc([k \in DOMAIN LoadDoc(d.db) \cup DOMAIN m.checkpoint_db |->
                                           IF k \in DOMAIN m.checkpoint_db
                                           THEN m.checkpoint_db[k] ELSE LoadDoc(d.db)[k]])
                          ELSE @]

\* _save_all_state, stopped after `writes` of its four writes (4: all of it):
\* main.yaml, shared_storage.yaml, file_tree.yaml, tiny_db.json, in this order
_save_all_state(m, d, writes) ==
    IF m.project_path = "None" THEN d
    ELSE [d EXCEPT !.main = IF writes >= 1 THEN DumpDoc(m.main_config) ELSE @,
                   !.shared = IF writes >= 2 THEN DumpDoc(m.shared_storage) ELSE @,
                   !.tree = IF writes >= 3 THEN DumpDoc(m.file_tree) ELSE @,
                   !.db = IF writes >= 4 THEN DumpDoc(m.checkpoint_db) ELSE @]

AllWrites == 4

\* the shared_storage of a brand new project, lines 136-143
NewSharedStorage(project_name, phase, t) ==
    [project_name |-> project_name, created_at |-> t, current_phase |-> phase,
     latest_model_file |-> "None", latest_checkpoint |-> "None", total_checkpoints |-> 0]

\* initial_setup(project_folder, project_name) on the root record d
initial_setup(m, d, project_folder, project_name, t) ==
    LET d1 == [main_exact(d) EXCEPT !.old_yamls = TRUE, !.files_dir = TRUE]
        m1 == _load_all_state([m EXCEPT !.project_path = project_folder], d1)
        m2 == [m1 EXCEPT !.shared_storage =
                             NewSharedStorage(project_name, m1.current_phase, t),
                         !.file_tree = [root |-> EmptyMap],
                         !.main_config = [project_settings |-> EmptyMap],
                         !.checkpoint_db = EmptyMap]
    IN  IF m1.shared_storage = EmptyMap
        THEN [mem |-> m2, root |-> _save_all_state(m2, d1, AllWrites)]
        ELSE [mem |-> m1, root |-> d1]

\* change_phase(new_phase)
change_phase(m, d, new_phase, t) ==
    LET old_phase == m.current_phase
        shared == Put(Put(m.shared_storage, "current_phase", new_phase), "phase_changes",
                      Append(Get(m.shared_storage, "phase_changes", <<>>),
                             [from |-> old_phase, to |-> new_phase, at |-> t]))
        m1 == [m EXCEPT !.current_phase = new_phase, !.shared_storage = shared]
    IN  [mem |-> m1, root |-> _save_all_state(m1, d, AllWrites)]

\* _update_file_tree("files/<filename>"): the leaf under root -> "files/"
_update_file_tree(file_tree, filename, blob, t) ==
    LET root == Get(file_tree, "root", EmptyMap)
        folder == Get(root, "files/", EmptyMap)
    IN  Put(file_tree, "root",
            Put(root, "files/",
                Put(folder, filename, [added_at |-> t, size_bytes |-> getsize(blob)])))

\* f"{name}_{obj_name}.pkl" with its suffix stripped by with_suffix('')
ObjectBase(name, obj_name) == name \o "_" \o obj_name

\* checkpoint_info['files'][obj_name] = Path(final_path).name
RecordedName(final_path, requested_path) == final_path

\* the loop of save_checkpoint over objects_to_save.items(), lines 223-249.
\* acc: files (under files/), file_tree, info_files (checkpoint_info['files']),
\* written (role -> the path really written), objects (each object as the
\* hook left it), outcome.
RECURSIVE SaveObjects(_, _, _, _, _, _)
SaveObjects(acc, kwargs, i, name, is_open, t) ==
    IF i > Len(kwargs) \/ acc.outcome # "ok" THEN acc
    ELSE LET obj_name == kwargs[i].role
             obj == kwargs[i].obj
             o == AfterHook(obj)
             resolved == get_no_overwrite_path(DOMAIN acc.files,
                                               ObjectBase(name, obj_name), ".pkl")
             final_path == resolved.file_path
             hooked == [acc EXCEPT !.objects = Put(@, obj_name, o)]
         IN  IF obj = PyNone THEN SaveObjects(acc, kwargs, i + 1, name, is_open, t)
             ELSE IF ~is_open THEN [hooked EXCEPT !.outcome = "TypeError"]
             ELSE IF ~o.picklable
                  THEN [hooked EXCEPT !.files = Put(@, final_path, TruncatedFile),
                                      !.outcome = "PicklingError"]
             ELSE SaveObjects(
                    [hooked EXCEPT !.files = Put(@, final_path, Pickle(o)),
                                   !.file_tree = _update_file_tree(@, final_path, Pickle(o), t),
                                   !.written = Put(@, obj_name, final_path),
                                   !.info_files = Put(@, obj_name,
                                       RecordedName(final_path, resolved.old_file_path))],
                    kwargs, i + 1, name, is_open, t)

KwargRoles(kwargs) == {kwargs[i].role : i \in 1..Len(kwargs)}

\* lines 251-260, after the loop: record the checkpoint, update shared
\* storage, save all state (stopped after `writes` writes)
RecordCheckpoint(m, d, name, kwargs, acc, phase, t, writes) ==
    LET info == [name |-> name, phase |-> phase, saved_at |-> t, files |-> acc.info_files]
        m1 == [m EXCEPT !.file_tree = acc.file_tree,
                        !.checkpoint_db = Put(@, name, info),
                        !.shared_storage = Put(@, "latest_checkpoint", name)]
        m2 == [m1 EXCEPT !.shared_storage = Put(@, "total_checkpoints", @["total_checkpoints"] + 1)]
        m3 == [m2 EXCEPT !.shared_storage = Put(@, "latest_model_file", acc.info_files["model"])]
        d1 == [d EXCEPT !.files = acc.files]
    IN  IF ~Has(m1.shared_storage, "total_checkpoints")
        THEN [mem |-> m1, root |-> d1, outcome |-> "KeyError"]
        ELSE IF "model" \in KwargRoles(kwargs)
             THEN IF ~Has(acc.info_files, "model")
                  THEN [mem |-> m2, root |-> d1, outcome |-> "KeyError"]
                  ELSE [mem |-> m3, root |-> _save_all_state(m3, d1, writes),
                        outcome |-> IF writes = AllWrites THEN "ok" ELSE "crash"]
             ELSE [mem |-> m2, root |-> _save_all_state(m2, d1, writes),
                   outcome |-> IF writes = AllWrites THEN "ok" ELSE "crash"]

\* save_checkpoint(name, **objects_to_save); kwargs is the sequence of
\* (role, obj) in call order
save_checkpoint(m, d, name, kwargs, t, writes) ==
    LET acc == SaveObjects([files |-> d.files, file_tree |-> m.file_tree,
                            info_files |-> EmptyMap, written |-> EmptyMap,
                            objects |-> EmptyMap, outcome |-> "ok"],
                           kwargs, 1, name, m.project_path # "None", t)
        done == RecordCheckpoint(m, d, name, kwargs, acc, m.current_phase, t, writes)
    IN  IF acc.outcome # "ok"
        THEN [mem |-> [m EXCEPT !.file_tree = acc.file_tree],
              root |-> [d EXCEPT !.files = acc.files],
              outcome |-> acc.outcome, written |-> acc.written, objects |-> acc.objects]
        ELSE [mem |-> done.mem, root |-> done.root, outcome |-> done.outcome,
              written |-> acc.written, objects |-> acc.objects]

\* load_checkpoint that reads an absent name as a checkpoint without files
LoadCheckpointLenient(m, d, name) ==
    LET files == IF Has(m.checkpoint_db, name) THEN m.checkpoint_db[name].files ELSE EmptyMap
        present == {r \in DOMAIN files : Has(d.files, files[r])}
    IN  IF \E r \in present : ~d.files[files[r]].complete
        THEN [outcome |-> "EOFError", loaded |-> EmptyMap]
        ELSE [outcome |-> "ok",
              loaded |-> [r \in present |-> Unpickle(d.files[files[r]])]]

\* load_checkpoint(name): the roles whose file exists are loaded, the others
\* are skipped; a truncated file makes pickle.load raise
load_checkpoint(m, d, name) ==
    IF ~Has(m.checkpoint_db, name)
    THEN [outcome |-> "ValueError", loaded |-> EmptyMap]
    ELSE LET files == m.checkpoint_db[name].files
             present == {r \in DOMAIN files : Has(d.files, files[r])}
         IN  IF \E r \in present : ~d.files[files[r]].complete
             THEN [outcome |-> "EOFError", loaded |-> EmptyMap]
             ELSE [outcome |-> "ok",
                   loaded |-> [r \in present |-> Unpickle(d.files[files[r]])]]

(***************************************************************************)
(* shared_storage2.py: MLProjectStorage, the second checkpoint store.      *)
(* It opens its root in container mode and keeps the checkpoint index in   *)
(* saved_checkpoints and the shared state in project_metadata.             *)
(***************************************************************************)
\* TrainingPhase
TrainingPhases ==
    {"initialization", "training_start", "mid_training", "training_complete",
     "evaluation", "deployment_ready"}

\* the fields MLProjectStorage.__init__ sets
InitProjectMem ==
    [storage_path |-> "None", project_config |-> EmptyMap, project_metadata |-> EmptyMap,
     saved_checkpoints |-> EmptyMap, current_phase |-> "initialization"]

\* TrainingPhase(value), ValueError caught: fall back to INITIALIZATION
RestoredTrainingPhase(value) ==
    IF value \in TrainingPhases THEN value ELSE "initialization"

\* _load_all_project_files: a document that does not exist leaves the field
_load_all_project_files(m, d) ==
    LET metadata == IF DocExists(d.shared) THEN LoadDoc(d.shared) ELSE m.project_metadata IN
    [m EXCEPT !.project_config = IF DocExists(d.main) THEN LoadDoc(d.main) ELSE @,
              !.project_metadata = metadata,
              !.current_phase = IF DocExists(d.shared) /\ Has(metadata, "current_phase")
                                THEN RestoredTrainingPhase(metadata["current_phase"]) ELSE @,
              !.saved_checkpoints = IF DocExists(d.db) THEN LoadDoc(d.db) ELSE @]

_save_project_metadata(m, d) ==
    IF m.storage_path = "None" THEN d ELSE [d EXCEPT !.shared = DumpDoc(m.project_metadata)]

_save_project_config(m, d) ==
    IF m.storage_path = "None" THEN d ELSE [d EXCEPT !.main = DumpDoc(m.project_config)]

_save_checkpoint_history(m, d) ==
    IF m.storage_path = "None" THEN d ELSE [d EXCEPT !.db = DumpDoc(m.saved_checkpoints)]

\* main(path, path_is_only_to_container=True, semantic_id_of_proc): a novel
\* folder is made inside the container and set up
main_container(container, semantic_id_of_proc) ==
    [path |-> NovelStartName(DOMAIN container, semantic_id_of_proc),
     root |-> setup([AbsentRoot EXCEPT !.dir = TRUE])]

\* the project_metadata of a new project, lines 88-94
NewProjectMetadata(project_name, phase, t) ==
    [project_name |-> project_name, created_at |-> t, current_phase |-> phase,
     total_saves |-> 0, description |-> "ML Project managed by semantic storage system"]

\* start_new_project(project_folder, project_name) on the container listing
start_new_project(m, container, project_name, t) ==
    LET made == main_container(container, project_name)
        m1 == _load_all_project_files([m EXCEPT !.storage_path = made.path], made.root)
        m2 == [m1 EXCEPT !.project_metadata =
                             NewProjectMetadata(project_name, m1.current_phase, t)]
    IN  IF m1.project_metadata = EmptyMap
        THEN [mem |-> m2, path |-> made.path, root |-> _save_project_metadata(m2, made.root)]
        ELSE [mem |-> m1, path |-> made.path, root |-> made.root]

\* move_to_phase(new_phase), phase_config=None
move_to_phase(m, d, new_phase, t) ==
    LET old_phase == m.current_phase
        config == Put(m.project_config, new_phase \o "_started_at", t)
        metadata == Put(Put(m.project_metadata, "current_phase", new_phase), "phase_history",
                        Append(Get(m.project_metadata, "phase_history", <<>>),
                               [from_phase |-> old_phase, to_phase |-> new_phase,
                                changed_at |-> t]))
        m1 == [m EXCEPT !.current_phase = new_phase, !.project_config = config,
                        !.project_metadata = metadata]
    IN  [mem |-> m1, root |-> _save_project_metadata(m1, _save_project_config(m1, d))]

\* f"model_{checkpoint_name}.pkl" with its suffix stripped by with_suffix('')
FileStem(kind, checkpoint_name) == kind \o "_" \o checkpoint_name

\* _save_object_to_file(obj, filename): returns final_path, or raises
_save_object_to_file(d, is_open, obj, stem) ==
    LET final_path == get_no_overwrite_path(DOMAIN d.files, stem, ".pkl").file_path
        d1 == [d EXCEPT !.files_dir = TRUE]
    IN  IF ~is_open
        THEN [root |-> d, outcome |-> "RuntimeError", final_path |-> "None"]
        ELSE IF ~obj.picklable
        THEN [root |-> [d1 EXCEPT !.files = Put(@, final_path, TruncatedFile)],
              outcome |-> "PicklingError", final_path |-> final_path]
        ELSE [root |-> [d1 EXCEPT !.files = Put(@, final_path, Pickle(obj))],
              outcome |-> "ok", final_path |-> final_path]

FilesSavedLabel(kind) ==
    IF kind = "model" THEN "Model: " ELSE IF kind = "logs" THEN "Logs: " ELSE "Extra data: "

\* one of the three "if ... is not None" blocks of save_checkpoint, lines
\* 208-229.  acc: root, data (checkpoint_data), metadata (project_metadata),
\* written (role -> the path really written), objects, outcome.
SaveRole(acc, kind, role, obj, checkpoint_name, is_open) ==
    IF acc.outcome # "ok" \/ obj = PyNone THEN acc
    ELSE LET filename == FileStem(kind, checkpoint_name) \o ".pkl"
             r == _save_object_to_file(acc.root, is_open, obj,
                                       FileStem(kind, checkpoint_name))
             tried == [acc EXCEPT !.root = r.root, !.objects = Put(@, role, obj)]
         IN  IF r.outcome # "ok" THEN [tried EXCEPT !.outcome = r.outcome]
             ELSE [tried EXCEPT
                     !.data = Put(Put(@, kind \o "_file", filename), "files_saved",
                                  Append(@["files_saved"], FilesSavedLabel(kind) \o filename)),
                     !.metadata = IF kind = "model"
                                  THEN Put(@, "current_best_model", filename) ELSE @,
                     !.written = Put(@, role, r.final_path)]

\* save_checkpoint(checkpoint_name, model_state, training_logs, extra_data)
\* of MLProjectStorage
project_save_checkpoint(m, d, checkpoint_name, model_state, training_logs, extra_data, t) ==
    LET is_open == m.storage_path # "None"
        a0 == [root |-> d,
               data |-> [name |-> checkpoint_name, phase |-> m.current_phase,
                         saved_at |-> t, description |-> "", files_saved |-> <<>>],
               metadata |-> m.project_metadata, outcome |-> "ok",
               written |-> EmptyMap, objects |-> EmptyMap]
        a1 == SaveRole(a0, "model", "model", model_state, checkpoint_name, is_open)
        a2 == SaveRole(a1, "logs", "logs", AfterHook(training_logs), checkpoint_name, is_open)
        a3 == SaveRole(a2, "extra", "extra_data", extra_data, checkpoint_name, is_open)
        m1 == [m EXCEPT !.project_metadata = a3.metadata]
        m2 == [m1 EXCEPT !.saved_checkpoints = Put(@, checkpoint_name, a3.data)]
        m3 == [m2 EXCEPT !.project_metadata =
                  Put(Put(Put(@, "total_saves", @["total_saves"] + 1),
                          "last_save", checkpoint_name), "last_save_time", t)]
    IN  IF a3.outcome # "ok"
        THEN [mem |-> m1, root |-> a3.root, outcome |-> a3.outcome,
              written |-> a3.written, objects |-> a3.objects]
        ELSE IF ~Has(m2.project_metadata, "total_saves")
        THEN [mem |-> m2, root |-> a3.root, outcome |-> "KeyError",
              written |-> a3.written, objects |-> a3.objects]
        ELSE [mem |-> m3,
              root |-> _save_project_metadata(m3, _save_checkpoint_history(m3, a3.root)),
              outcome |-> "ok", written |-> a3.written, objects |-> a3.objects]

\* _load_object_from_file(filename): returns the object, or raises
_load_object_from_file(d, is_open, filename) ==
    IF ~is_open THEN [outcome |-> "RuntimeError", obj |-> PyNone]
    ELSE IF ~Has(d.files, filename) THEN [outcome |-> "FileNotFoundError", obj |-> PyNone]
    ELSE IF ~d.files[filename].complete THEN [outcome |-> "EOFError", obj |-> PyNone]
    ELSE [outcome |-> "ok", obj |-> Unpickle(d.files[filename])]

\* one of the three "if '..._file' in checkpoint_info" blocks, lines 268-280
LoadRole(acc, d, is_open, checkpoint_info, kind, role) ==
    IF acc.outcome # "ok" \/ ~Has(checkpoint_info, kind \o "_file") THEN acc
    ELSE LET r == _load_object_from_file(d, is_open, checkpoint_info[kind \o "_file"]) IN
         IF r.outcome # "ok" THEN [outcome |-> r.outcome, loaded |-> EmptyMap]
         ELSE [acc EXCEPT !.loaded = Put(@, role, r.obj)]

\* load_checkpoint(checkpoint_name) of MLProjectStorage
project_load_checkpoint(m, d, checkpoint_name) ==
    IF ~Has(m.saved_checkpoints, checkpoint_name)
    THEN [outcome |-> "ValueError", loaded |-> EmptyMap]
    ELSE LET info == m.saved_checkpoints[checkpoint_name]
             is_open == m.storage_path # "None"
             l0 == [outcome |-> "ok", loaded |-> EmptyMap]
             l1 == LoadRole(l0, d, is_open, info, "model", "model")
             l2 == LoadRole(l1, d, is_open, info, "logs", "logs")
         IN  LoadRole(l2, d, is_open, info, "extra", "extra_data")

(***************************************************************************)
(* singleton_storage_fns.py and persistent_storage_fns.py: main on a       *)
(* container folder.  A store is the container: dir (it exists) and roots, *)
(* the folders inside it by name.  A path is abs (it is absolute) and      *)
(* child, the name inside the container ("" for the container itself).     *)
(***************************************************************************)
AbsentStore == [dir |-> FALSE, roots |-> EmptyMap]

\* Path(path_to_storage).resolve(): the absolute form of the path
resolve(path) == [path EXCEPT !.abs = TRUE]

\* what is at a child name of the container
ChildOf(store, absent, child) ==
    IF child \in DOMAIN store.roots THEN store.roots[child] ELSE absent

\* the root layout of persistent_storage_fns: two documents, four folders
PssAbsentRoot ==
    [dir |-> FALSE, main |-> AbsentDoc, db |-> AbsentDoc, old_yamls |-> FALSE,
     pickles_and_such |-> FALSE, symlink_tree |-> FALSE, write_only_tree |-> FALSE]

\* persistent_storage_fns.setup
pss_setup(d) ==
    [d EXCEPT !.main = IF DocExists(@) THEN @ ELSE DumpDoc(EmptyMap),
              !.db = IF DocExists(@) THEN @ ELSE DumpDoc(EmptyMap),
              !.old_yamls = TRUE,
              !.pickles_and_such = TRUE,
              !.symlink_tree = TRUE,
              !.write_only_tree = TRUE]

\* a main that runs setup on an exact path whether or not it exists
ssf_main_resetup(store, path_to_storage, path_is_only_to_container, semantic_id_of_proc) ==
    IF ~path_is_only_to_container
    THEN [returned |-> path_to_storage,
          store |-> [dir |-> TRUE,
                     roots |-> Put(store.roots, path_to_storage.child,
                                   setup([ChildOf(store, AbsentRoot, path_to_storage.child)
                                             EXCEPT !.dir = TRUE]))]]
    ELSE LET novel == main_container(store.roots, semantic_id_of_proc) IN
         [returned |-> [path_to_storage EXCEPT !.child = novel.path],
          store |-> [dir |-> TRUE, roots |-> Put(store.roots, novel.path, novel.root)]]

\* singleton_storage_fns.main: Path(path_to_storage), then the exact or
\* the container branch
ssf_main(store, path_to_storage, path_is_only_to_container, semantic_id_of_proc) ==
    IF ~path_is_only_to_container
    THEN IF path_to_storage.child \notin DOMAIN store.roots
         THEN [returned |-> path_to_storage,
               store |-> [dir |-> TRUE,
                          roots |-> Put(store.roots, path_to_storage.child,
                                        main_exact(AbsentRoot))]]
         ELSE [returned |-> path_to_storage, store |-> store]
    ELSE LET novel == main_container(store.roots, semantic_id_of_proc) IN
         [returned |-> [path_to_storage EXCEPT !.child = novel.path],
          store |-> [dir |-> TRUE, roots |-> Put(store.roots, novel.path, novel.root)]]

\* persistent_storage_fns.main: Path(path_to_storage).resolve(), then the
\* same two branches with its own setup
pss_main(store, path_to_storage, path_is_only_to_container, semantic_id_of_proc) ==
    LET resolved_path == resolve(path_to_storage) IN
    IF ~path_is_only_to_container
    THEN IF resolved_path.child \notin DOMAIN store.roots
         THEN [returned |-> resolved_path,
               store |-> [dir |-> TRUE,
                          roots |-> Put(store.roots, resolved_path.child,
                                        pss_setup([PssAbsentRoot EXCEPT !.dir = TRUE]))]]
         ELSE [returned |-> resolved_path, store |-> store]
    ELSE LET folder_path == NovelStartName(DOMAIN store.roots, semantic_id_of_proc) IN
         [returned |-> [resolved_path EXCEPT !.child = folder_path],
          store |-> [dir |-> TRUE,
                     roots |-> Put(store.roots, folder_path,
                                   pss_setup([PssAbsentRoot EXCEPT !.dir = TRUE]))]]

(***************************************************************************)
(* final_shared_storage.py / shared_storage.py: SimpleMLStorage.  An       *)
(* object is a record: its class, its epoch count, the is_saved mark of    *)
(* TrainingLogs, the model and the last_updated stamp of ModelWrapper.     *)
(* The files of a root are keyed by <<folder, file name>>.                 *)
(***************************************************************************)
SimpleNone ==
    [cls |-> "None", epochs |-> 0, is_saved |-> FALSE, model |-> "None", updated |-> 0]

\* TrainingLogs()
NewTrainingLogs == [SimpleNone EXCEPT !.cls = "TrainingLogs"]

\* ModelWrapper(): created_at = last_updated = now
NewModelWrapper(t) == [SimpleNone EXCEPT !.cls = "ModelWrapper", !.updated = t]

\* training_logs.add_epoch(...)
add_epoch(obj) == [obj EXCEPT !.epochs = @ + 1]

\* model_wrapper.update_model(model)
update_model(obj, model, t) ==
    [obj EXCEPT !.model = model, !.updated = t, !.epochs = @ + 1]

InitSimpleMem ==
    [storage_path |-> "None", training_logs |-> SimpleNone, model_wrapper |-> SimpleNone,
     main_config |-> EmptyMap, file_tree |-> EmptyMap]

\* files_folder / "training_logs.pkl", files_folder / "model_wrapper.pkl"
LogsPath == <<"files", "training_logs.pkl">>

ModelPath == <<"files", "model_wrapper.pkl">>

\* self.paths['backups_weights']
BackupsWeights == "files/backups/weights"

\* setup(project_folder, project_name): a new root in the container, its
\* folders, then _load_yaml_configs
simple_setup(m, roots, project_name) ==
    LET novel == main_container(roots, project_name) IN
    [mem |-> [m EXCEPT !.storage_path = novel.path,
                       !.main_config = LoadDoc(novel.root.main),
                       !.file_tree = LoadDoc(novel.root.tree)],
     roots |-> Put(roots, novel.path, novel.root)]

\* load(): RuntimeError without a storage path; each object from its file
\* when that exists, a new one otherwise
simple_load(m, d, t) ==
    IF m.storage_path = "None" THEN [outcome |-> "RuntimeError", mem |-> m]
    ELSE [outcome |-> "ok",
          mem |-> [m EXCEPT !.training_logs =
                                IF LogsPath \in DOMAIN d.files
                                THEN Unpickle(d.files[LogsPath]) ELSE NewTrainingLogs,
                            !.model_wrapper =
                                IF ModelPath \in DOMAIN d.files
                                THEN Unpickle(d.files[ModelPath]) ELSE NewModelWrapper(t)]]

\* file_tree_manage(path, remove=False)
file_tree_manage(file_tree, path, t) ==
    Put(file_tree, path, [added_at |-> t, type |-> "file", exists |-> TRUE])

\* a backup that copies model_wrapper.pkl over the backup every time
_backup_model_weights_refreshing(d_files) ==
    IF ModelPath \notin DOMAIN d_files THEN d_files
    ELSE Put(d_files, join(BackupsWeights, basename(ModelPath)), d_files[ModelPath])

\* _backup_model_weights(): make_non_duplicate_backups of model_wrapper.pkl
_backup_model_weights(d_files) ==
    IF ModelPath \notin DOMAIN d_files THEN d_files
    ELSE make_non_duplicate_backups(d_files, <<ModelPath>>, BackupsWeights).tree

\* with open(path, 'wb') as f: pickle.dump(obj, f), whatever is at path
SimpleWrite(d_files, path, obj) ==
    [files |-> Put(d_files, path, Pickle(obj)), existed |-> path \in DOMAIN d_files]

\* save(): RuntimeError without a storage path; the logs and the wrapper
\* are dumped at their fixed paths, recorded in the file tree and in the
\* main config, the wrapper file is backed up, the two documents written
simple_save(m, d, t) ==
    IF m.storage_path = "None"
    THEN [outcome |-> "RuntimeError", mem |-> m, root |-> d, writes |-> <<>>]
    ELSE
    LET has_logs == m.training_logs.cls # "None"
        logs == [m.training_logs EXCEPT !.is_saved = TRUE]
        w1 == SimpleWrite(d.files, LogsPath, logs)
        m1 == IF has_logs
              THEN [m EXCEPT !.training_logs = logs,
                             !.file_tree = file_tree_manage(@, LogsPath, t),
                             !.main_config = Put(@, "latest_training_logs",
                                 [path |-> LogsPath, epochs_count |-> logs.epochs,
                                  last_updated |-> t])]
              ELSE m
        f1 == IF has_logs THEN w1.files ELSE d.files
        has_wrapper == m.model_wrapper.cls # "None"
        w2 == SimpleWrite(f1, ModelPath, m.model_wrapper)
        m2 == IF has_wrapper
              THEN [m1 EXCEPT !.file_tree = file_tree_manage(@, ModelPath, t),
                              !.main_config = Put(@, "latest_model_wrapper",
                                  [path |-> ModelPath,
                                   training_epochs |-> m.model_wrapper.epochs,
                                   last_updated |-> m.model_wrapper.updated])]
              ELSE m1
        f2 == IF ~has_wrapper THEN f1
              ELSE IF m.model_wrapper.model # "None" THEN _backup_model_weights(w2.files)
              ELSE w2.files
    IN  [outcome |-> "ok", mem |-> m2,
         root |-> [d EXCEPT !.files = f2,
                            !.main = DumpDoc(m2.main_config),
                            !.tree = DumpDoc(m2.file_tree)],
         writes |-> (IF has_logs THEN <<[path |-> LogsPath, existed |-> w1.existed]>>
                     ELSE <<>>)
                    \o (IF has_wrapper
                        THEN <<[path |-> ModelPath, existed |-> w2.existed]>>
                        ELSE <<>>)]

(***************************************************************************)
(* helpers_storage.py: novel_folder_anum and its base-62 names.            *)
(***************************************************************************)
\* string.digits + string.ascii_uppercase + string.ascii_lowercase
_ALPHANUM_CHARS ==
    <<"0", "1", "2", "3", "4", "5", "6", "7", "8", "9", "A", "B", "C",
      "D", "E", "F", "G", "H", "I", "J", "K", "L", "M", "N", "O", "P",
      "Q", "R", "S", "T", "U", "V", "W", "X", "Y", "Z", "a", "b", "c",
      "d", "e", "f", "g", "h", "i", "j", "k", "l", "m", "n", "o", "p",
      "q", "r", "s", "t", "u", "v", "w", "x", "y", "z">>

\* len(_ALPHANUM_CHARS)
Base62 == Len(_ALPHANUM_CHARS)

\* the fixed-length base-62 string of num: `length` times divmod, the
\* remainders joined most significant first
RECURSIVE _to_base62(_, _)
_to_base62(num, length) ==
    IF length = 0 THEN ""
    ELSE _to_base62(num \div Base62, length - 1) \o _ALPHANUM_CHARS[(num % Base62) + 1]

\* len(_ALPHANUM_CHARS) ** digit_num
RECURSIVE max_num(_)
max_num(digit_num) == IF digit_num = 0 THEN 1 ELSE Base62 * max_num(digit_num - 1)

\* a probe sequence that skips every other number
NextNumberByTwo(n, digit_num) == (n + 2) % max_num(digit_num)

\* a probe sequence that walks downwards
NextNumberDown(n, digit_num) == (n + max_num(digit_num) - 1) % max_num(digit_num)

\* n = (n + 1) % max_num
NextNumber(n, digit_num) == (n + 1) % max_num(digit_num)

\* a loop that gives up after one full cycle and returns the name it is at
anum_probe_gives_up(a) ==
    LET name == _to_base62(a.n, a.digit_num) \o a.suffix IN
    IF name \notin a.parent \/ a.probes >= max_num(a.digit_num)
    THEN [a EXCEPT !.parent = IF a.kind = "folder" THEN @ \cup {name} ELSE @,
                   !.returned = name, !.probes = @ + 1]
    ELSE [a EXCEPT !.n = NextNumber(@, a.digit_num), !.probes = @ + 1]

\* one pass of the `while True` body on the loop state a, of
\* novel_folder_anum (kind "folder": the name is made a directory) and of
\* novel_filename_anum (kind "filename": name + suffix, nothing is created)
anum_probe(a) ==
    LET name == _to_base62(a.n, a.digit_num) \o a.suffix IN
    IF name \notin a.parent
    THEN [a EXCEPT !.parent = IF a.kind = "folder" THEN @ \cup {name} ELSE @,
                   !.returned = name, !.probes = @ + 1]
    ELSE [a EXCEPT !.n = NextNumber(@, a.digit_num), !.probes = @ + 1]

(***************************************************************************)
(* os.makedirs on a directory listing.                                     *)
(***************************************************************************)
\* os.makedirs(folder_path) without exist_ok: raises when the folder exists
makedirs_strict(listing, folder_path) ==
    IF folder_path \in listing
    THEN [listing |-> listing, outcome |-> "FileExistsError"]
    ELSE [listing |-> listing \cup {folder_path}, outcome |-> "ok"]

\* os.makedirs(folder_path, exist_ok=True)
makedirs(listing, folder_path) ==
    [listing |-> listing \cup {folder_path}, outcome |-> "ok"]

(***************************************************************************)
(* State.                                                                  *)
(***************************************************************************)
VARIABLES
    parent,     \* names existing in the parent folder of the allocator
    returned,   \* the paths novel_start_of_folder has returned
    allocs,     \* how many calls each label has made
    disk,       \* root path -> root record
    mem,        \* the fields of the MLStorage singleton of the running process
    now,        \* datetime.now(), a logical clock
    last,       \* the last operation: its arguments and what it returned
    phaseCalls, \* root path -> the (from, to) of the change_phase calls on it
    pickled,    \* root path -> file name -> the object save_checkpoint wrote there
    container,  \* the folders inside the container of MLProjectStorage: name -> root record
    project,    \* the fields of the MLProjectStorage singleton of the running process
    files,      \* the files a caller of get_no_overwrite_path works on: path -> content
    resolved,   \* the get_no_overwrite_path calls so far, oldest first
    tree,       \* the files make_non_duplicate_backups works on: <<folder, name>> -> content
    backups,    \* the make_non_duplicate_backups calls so far, oldest first
    docs,       \* the document files of the handlers: path -> file
    io,         \* the handler calls so far, oldest first
    stores,     \* the container of each module: "ssf", "pss" -> store
    mains,      \* the main calls so far, oldest first
    sroots,     \* the container of SimpleMLStorage: folder name -> root record
    simple,     \* the fields of the SimpleMLStorage singleton
    slast,      \* the last SimpleMLStorage call: what it did and what was there before
    sclock,     \* datetime.now() of the SimpleMLStorage process
    anum,       \* the novel_folder_anum call: its inputs, loop variables and result
    conc        \* processes running side by side and what they share on disk;
                \* in SpecPaths the AllPaths class and its instance

allocVars == <<parent, returned, allocs>>

storeVars == <<disk, mem, now, last, phaseCalls, pickled>>

projectVars == <<container, project>>

resolveVars == <<files, resolved>>

backupVars == <<tree, backups>>

docVars == <<docs, io>>

rootVars == <<stores, mains>>

simpleVars == <<sroots, simple, slast, sclock>>

anumVars == <<anum>>

concVars == <<conc>>

helperVars == <<resolveVars, backupVars, docVars, rootVars, simpleVars, anumVars, concVars>>

vars == <<parent, returned, allocs, disk, mem, now, last, phaseCalls, pickled,
          container, project, files, resolved, tree, backups,
          docs, io, stores, mains, sroots, simple, slast, sclock, anum, conc>>

Labels == {"unet", "segnet"}

Roots == {"proj_a", "proj_b"}

CheckpointNames == {"c", "c_1"}

Roles == {"model", "logs"}

\* the phases the callers move to: the initial one (a revisit) and a later one
PhaseArgs == {"setup", "training"}

Kw(role, obj) == [role |-> role, obj |-> obj]

\* the keyword arguments of one save_checkpoint call, in call order:
\* nothing, one model, another model, model=None, a model and logs with the
\* hook, logs and an object pickle refuses, logs and model=None
KwargsChoices ==
    { <<>>,
      <<Kw("model", ModelDict)>>,
      <<Kw("model", TrainedModelDict)>>,
      <<Kw("model", PyNone)>>,
      <<Kw("model", ModelDict), Kw("logs", TrainingLogs)>>,
      <<Kw("logs", TrainingLogs), Kw("model", Unpicklable)>>,
      <<Kw("logs", TrainingLogs), Kw("model", PyNone)>> }

NoOp ==
    [op |-> "none", outcome |-> "ok", root |-> "None", name |-> "", phase |-> "setup",
     fresh |-> FALSE, objects |-> EmptyMap, written |-> EmptyMap, loaded |-> EmptyMap]

AllocBound(label) == IF label = "unet" THEN MaxAllocs ELSE MaxOtherAllocs

InitAlloc ==
    /\ parent = {}
    /\ returned = {}
    /\ allocs = [l \in Labels |-> 0]

InitStore ==
    /\ disk = [r \in Roots |-> AbsentRoot]
    /\ mem = InitMem
    /\ now = 0
    /\ last = NoOp
    /\ phaseCalls = [r \in Roots |-> <<>>]
    /\ pickled = [r \in Roots |-> EmptyMap]
    /\ container = EmptyMap
    /\ project = InitProjectMem

\* no helper has been called
InitResolveIdle ==
    /\ files = EmptyMap
    /\ resolved = <<>>

InitBackupIdle ==
    /\ tree = EmptyMap
    /\ backups = <<>>

InitDocsIdle ==
    /\ docs = EmptyMap
    /\ io = <<>>

InitRootsIdle ==
    /\ stores = [ssf |-> AbsentStore, pss |-> AbsentStore]
    /\ mains = <<>>

SimpleNoOp ==
    [op |-> "none", outcome |-> "ok", writes |-> <<>>,
     mem |-> InitSimpleMem, roots |-> EmptyMap]

InitSimpleIdle ==
    /\ sroots = EmptyMap
    /\ simple = InitSimpleMem
    /\ slast = SimpleNoOp
    /\ sclock = 0

\* a call of kind on a parent holding `existing`, random.randrange giving start
AnumCallOn(kind, suffix, digit_num, existing, free, start) ==
    [kind |-> kind, suffix |-> suffix, digit_num |-> digit_num, free |-> free,
     start |-> start, initial |-> existing, parent |-> existing,
     n |-> start, probes |-> 0, returned |-> "None"]

AnumCall(digit_num, free, start) ==
    AnumCallOn("folder", "", digit_num,
               {_to_base62(k, digit_num) : k \in 0..(max_num(digit_num) - 1)} \ {free},
               free, start)

InitConcIdle == conc = [procs |-> {}]

InitAnumIdle == anum = [AnumCall(0, "", 0) EXCEPT !.returned = ""]

InitHelpersIdle ==
    /\ InitResolveIdle
    /\ InitBackupIdle
    /\ InitDocsIdle
    /\ InitRootsIdle
    /\ InitSimpleIdle
    /\ InitAnumIdle
    /\ InitConcIdle

Init == InitAlloc /\ InitStore /\ InitHelpersIdle

(***************************************************************************)
(* The allocator on one parent folder.                                     *)
(***************************************************************************)
\* novel_start_of_folder(parent, semantic_id): probe, os.makedirs, return
novel_start_of_folder(semantic_id) ==
    /\ allocs[semantic_id] < AllocBound(semantic_id)
    /\ LET folder_path == NovelStartName(parent, semantic_id) IN
       /\ parent' = parent \cup {folder_path}
       /\ returned' = returned \cup {folder_path}
    /\ allocs' = [allocs EXCEPT ![semantic_id] = @ + 1]
    /\ UNCHANGED <<storeVars, projectVars, helperVars>>

NextAlloc == \E semantic_id \in Labels : novel_start_of_folder(semantic_id)

SpecAlloc == Init /\ [][NextAlloc]_vars

(***************************************************************************)
(* The callers of novel_start_of_folder and somebody who removes folders   *)
(* of the parent from outside.                                             *)
(***************************************************************************)
MaxRmdirs == 1

\* the counters of the folders that get removed
RmdirCounters == {CounterStart, CounterStart - 2, CounterFloor}

\* the folders removed so far: those handed out again and those still missing
Rmdirs == (allocs["unet"] + allocs["segnet"] - Cardinality(returned)) + Cardinality(returned \ parent)

\* shutil.rmtree(folder) by another process
ExternalRmdir(folder_path) ==
    /\ Rmdirs < MaxRmdirs
    /\ folder_path \in parent
    /\ parent' = parent \ {folder_path}
    /\ UNCHANGED <<returned, allocs, storeVars, projectVars, helperVars>>

NextReuse ==
    \/ \E semantic_id \in Labels : novel_start_of_folder(semantic_id)
    \/ \E semantic_id \in Labels, counter \in RmdirCounters :
          ExternalRmdir(FolderName("", counter, semantic_id))

SpecReuse == Init /\ [][NextReuse]_vars

(***************************************************************************)
(* The MLStorage session of one process, and its environment.              *)
(***************************************************************************)
\* the root record the open store writes to (none before setup)
OpenRoot == IF mem.project_path = "None" THEN AbsentRoot ELSE disk[mem.project_path]

WithOpenRoot(d) ==
    IF mem.project_path = "None" THEN disk ELSE [disk EXCEPT ![mem.project_path] = d]

\* storage.initial_setup(project_folder)
InitialSetupWithin(project_folder, clock_bound) ==
    /\ now < clock_bound
    /\ LET res == initial_setup(mem, disk[project_folder], project_folder, "ML_Project", now) IN
       /\ mem' = res.mem
       /\ disk' = [disk EXCEPT ![project_folder] = res.root]
    /\ now' = now + 1
    /\ last' = [NoOp EXCEPT !.op = "initial_setup", !.root = project_folder,
                            !.phase = mem.current_phase,
                            !.fresh = (LoadDoc(disk[project_folder].shared) = EmptyMap)]
    /\ UNCHANGED <<phaseCalls, pickled, allocVars, projectVars, helperVars>>

InitialSetup(project_folder) == InitialSetupWithin(project_folder, MaxClock)

\* storage.change_phase(new_phase)
ChangePhaseWithin(new_phase, clock_bound) ==
    /\ now < clock_bound
    /\ LET res == change_phase(mem, OpenRoot, new_phase, now) IN
       /\ mem' = res.mem
       /\ disk' = WithOpenRoot(res.root)
    /\ now' = now + 1
    /\ last' = [NoOp EXCEPT !.op = "change_phase", !.root = mem.project_path,
                            !.name = new_phase, !.phase = mem.current_phase]
    /\ phaseCalls' = IF mem.project_path = "None" THEN phaseCalls
                     ELSE [phaseCalls EXCEPT ![mem.project_path] =
                               Append(@, <<mem.current_phase, new_phase>>)]
    /\ UNCHANGED <<pickled, allocVars, projectVars, helperVars>>

ChangePhase(new_phase) == ChangePhaseWithin(new_phase, MaxClock)

\* the objects the call wrote completely, by file name
WrittenObjects(res) ==
    [f \in {res.written[r] : r \in DOMAIN res.written} |->
        res.objects[CHOOSE r \in DOMAIN res.written : res.written[r] = f]]

Merge(m1, m2) == [k \in DOMAIN m1 \cup DOMAIN m2 |-> IF k \in DOMAIN m2 THEN m2[k] ELSE m1[k]]

SaveEffects(res, name, op) ==
    /\ disk' = WithOpenRoot(res.root)
    /\ now' = now + 1
    /\ last' = [NoOp EXCEPT !.op = op, !.outcome = res.outcome,
                            !.root = mem.project_path, !.name = name,
                            !.phase = mem.current_phase,
                            !.objects = res.objects, !.written = res.written]
    /\ pickled' = IF mem.project_path = "None" THEN pickled
                  ELSE [pickled EXCEPT ![mem.project_path] = Merge(@, WrittenObjects(res))]
    /\ UNCHANGED <<phaseCalls, allocVars, projectVars, helperVars>>

\* storage.save_checkpoint(name, **kwargs), returning or raising
SaveCheckpointWithin(name, kwargs, clock_bound) ==
    /\ now < clock_bound
    /\ LET res == save_checkpoint(mem, OpenRoot, name, kwargs, now, AllWrites) IN
       /\ mem' = res.mem
       /\ SaveEffects(res, name, "save_checkpoint")

SaveCheckpoint(name, kwargs) == SaveCheckpointWithin(name, kwargs, MaxClock)

\* the process dies inside _save_all_state of save_checkpoint, after
\* `writes` of the four document writes; a new process starts
CrashInSave(name, kwargs, writes) ==
    /\ now < MaxClock
    /\ LET res == save_checkpoint(mem, OpenRoot, name, kwargs, now, writes) IN
       /\ res.outcome = "crash"
       /\ mem' = InitMem
       /\ SaveEffects(res, name, "crash_in_save")

\* storage.load_checkpoint(name), returning or raising
LoadCheckpoint(name) ==
    /\ LET res == load_checkpoint(mem, OpenRoot, name) IN
       last' = [NoOp EXCEPT !.op = "load_checkpoint", !.outcome = res.outcome,
                           !.root = mem.project_path, !.name = name,
                           !.phase = mem.current_phase, !.loaded = res.loaded]
    /\ UNCHANGED <<disk, mem, now, phaseCalls, pickled, allocVars, projectVars, helperVars>>

\* the process exits and a new one imports the module: storage = MLStorage()
Restart ==
    /\ mem # InitMem
    /\ mem' = InitMem
    /\ last' = [NoOp EXCEPT !.op = "restart"]
    /\ UNCHANGED <<disk, now, phaseCalls, pickled, allocVars, projectVars, helperVars>>

\* somebody removes a file under files/
ExternalDelete(r, f) ==
    /\ Has(disk[r].files, f)
    /\ disk' = [disk EXCEPT ![r].files = Remove(@, f)]
    /\ last' = [NoOp EXCEPT !.op = "external_delete", !.root = r, !.name = f]
    /\ UNCHANGED <<mem, now, phaseCalls, pickled, allocVars, projectVars, helperVars>>

\* somebody creates the project directory, empty, before any setup
ExternalMkdir(r) ==
    /\ ~disk[r].dir
    /\ disk' = [disk EXCEPT ![r].dir = TRUE]
    /\ last' = [NoOp EXCEPT !.op = "external_mkdir", !.root = r]
    /\ UNCHANGED <<mem, now, phaseCalls, pickled, allocVars, projectVars, helperVars>>

AllFileNames == UNION {DOMAIN disk[r].files : r \in Roots}

NextStore ==
    \/ \E r \in Roots : InitialSetup(r)
    \/ \E p \in PhaseArgs : ChangePhase(p)
    \/ \E n \in CheckpointNames, kw \in KwargsChoices : SaveCheckpoint(n, kw)
    \/ \E n \in CheckpointNames : LoadCheckpoint(n)
    \/ Restart
    \/ \E r \in Roots, f \in AllFileNames : ExternalDelete(r, f)
    \/ \E r \in Roots : ExternalMkdir(r)

SpecStore == Init /\ [][NextStore]_vars

NextCrash ==
    \/ NextStore
    \/ \E n \in CheckpointNames, kw \in KwargsChoices, w \in 0..(AllWrites - 1) :
          CrashInSave(n, kw, w)

SpecCrash == Init /\ [][NextCrash]_vars

(***************************************************************************)
(* A longer MLStorage session on one root with one checkpoint name: setups, *)
(* saves and phase changes, and files deleted from outside.                *)
(***************************************************************************)
MaxTreeClock == 4

TreeRoot == "proj_a"

TreeCheckpoint == "c"

TreePhase == "training"

NextTree ==
    \/ InitialSetupWithin(TreeRoot, MaxTreeClock)
    \/ \E kw \in KwargsChoices : SaveCheckpointWithin(TreeCheckpoint, kw, MaxTreeClock)
    \/ ChangePhaseWithin(TreePhase, MaxTreeClock)
    \/ \E f \in AllFileNames : ExternalDelete(TreeRoot, f)

SpecTree == Init /\ [][NextTree]_vars

(***************************************************************************)
(* The MLProjectStorage session of one process, and its environment.       *)
(***************************************************************************)
ProjectNames == {"p"}

\* the phases the callers move to: the initial one (a revisit) and a later one
ProjectPhaseArgs == {"initialization", "training_start"}

SaveArgs(model_state, training_logs, extra_data) ==
    [model_state |-> model_state, training_logs |-> training_logs,
     extra_data |-> extra_data]

\* the arguments of one save_checkpoint call: nothing, one model, another
\* model, a model and logs with the hook, a model and extra data that pickle
\* refuses, extra data with the hook
SaveArgsChoices ==
    { SaveArgs(PyNone, PyNone, PyNone),
      SaveArgs(ModelDict, PyNone, PyNone),
      SaveArgs(TrainedModelDict, PyNone, PyNone),
      SaveArgs(ModelDict, TrainingLogs, PyNone),
      SaveArgs(ModelDict, PyNone, Unpicklable),
      SaveArgs(PyNone, PyNone, TrainingLogs) }

\* the root record the open store writes to (none before start_new_project)
OpenProjectRoot ==
    IF project.storage_path = "None" THEN AbsentRoot ELSE container[project.storage_path]

WithOpenProjectRoot(d) ==
    IF project.storage_path = "None" THEN container
    ELSE [container EXCEPT ![project.storage_path] = d]

\* ml_storage.start_new_project("./my_ml_project", project_name)
StartNewProject(project_name) ==
    /\ now < MaxClock
    /\ LET res == start_new_project(project, container, project_name, now) IN
       /\ project' = res.mem
       /\ container' = Put(container, res.path, res.root)
       /\ last' = [NoOp EXCEPT !.op = "start_new_project", !.root = res.path,
                               !.phase = project.current_phase, !.fresh = TRUE]
    /\ now' = now + 1
    /\ UNCHANGED <<disk, mem, phaseCalls, pickled, allocVars, helperVars>>

\* ml_storage.move_to_phase(new_phase)
MoveToPhase(new_phase) ==
    /\ now < MaxClock
    /\ LET res == move_to_phase(project, OpenProjectRoot, new_phase, now) IN
       /\ project' = res.mem
       /\ container' = WithOpenProjectRoot(res.root)
    /\ now' = now + 1
    /\ last' = [NoOp EXCEPT !.op = "move_to_phase", !.root = project.storage_path,
                            !.name = new_phase, !.phase = project.current_phase]
    /\ UNCHANGED <<disk, mem, phaseCalls, pickled, allocVars, helperVars>>

\* ml_storage.save_checkpoint(checkpoint_name, ...), returning or raising
ProjectSaveCheckpoint(checkpoint_name, args) ==
    /\ now < MaxClock
    /\ LET res == project_save_checkpoint(project, OpenProjectRoot, checkpoint_name,
                      args.model_state, args.training_logs, args.extra_data, now) IN
       /\ project' = res.mem
       /\ container' = WithOpenProjectRoot(res.root)
       /\ last' = [NoOp EXCEPT !.op = "project_save_checkpoint", !.outcome = res.outcome,
                               !.root = project.storage_path, !.name = checkpoint_name,
                               !.phase = project.current_phase,
                               !.objects = res.objects, !.written = res.written]
    /\ now' = now + 1
    /\ UNCHANGED <<disk, mem, phaseCalls, pickled, allocVars, helperVars>>

\* ml_storage.load_checkpoint(checkpoint_name), returning or raising
ProjectLoadCheckpoint(checkpoint_name) ==
    /\ LET res == project_load_checkpoint(project, OpenProjectRoot, checkpoint_name) IN
       last' = [NoOp EXCEPT !.op = "project_load_checkpoint", !.outcome = res.outcome,
                           !.root = project.storage_path, !.name = checkpoint_name,
                           !.phase = project.current_phase, !.loaded = res.loaded]
    /\ UNCHANGED <<container, project, now, disk, mem, phaseCalls, pickled, allocVars, helperVars>>

\* the process exits and a new one imports the module: MLProjectStorage()
ProjectRestart ==
    /\ project # InitProjectMem
    /\ project' = InitProjectMem
    /\ last' = [NoOp EXCEPT !.op = "project_restart"]
    /\ UNCHANGED <<container, now, disk, mem, phaseCalls, pickled, allocVars, helperVars>>

\* somebody removes a file under files/ of a project folder
ProjectExternalDelete(r, f) ==
    /\ Has(container[r].files, f)
    /\ container' = [container EXCEPT ![r].files = Remove(@, f)]
    /\ last' = [NoOp EXCEPT !.op = "project_external_delete", !.root = r, !.name = f]
    /\ UNCHANGED <<project, now, disk, mem, phaseCalls, pickled, allocVars, helperVars>>

AllProjectFileNames == UNION {DOMAIN container[r].files : r \in DOMAIN container}

NextProject ==
    \/ \E project_name \in ProjectNames : StartNewProject(project_name)
    \/ \E p \in ProjectPhaseArgs : MoveToPhase(p)
    \/ \E n \in CheckpointNames, args \in SaveArgsChoices : ProjectSaveCheckpoint(n, args)
    \/ \E n \in CheckpointNames : ProjectLoadCheckpoint(n)
    \/ ProjectRestart
    \/ \E r \in DOMAIN container, f \in AllProjectFileNames : ProjectExternalDelete(r, f)

SpecProject == Init /\ [][NextProject]_vars

(***************************************************************************)
(* One process using both stores.                                          *)
(***************************************************************************)
NextStores == NextStore \/ NextProject

SpecStores == Init /\ [][NextStores]_vars

(***************************************************************************)
(* A caller of get_no_overwrite_path: it asks for a path, and it may or    *)
(* may not create a file there before it asks again.                       *)
(***************************************************************************)
MaxCalls == 3

ResolveBases == {"w", "v"}

ResolveSuffixes == {".pkl"}

\* the paths that may hold a file before the first call
ResolvePaths == {"w.pkl", "w_1.pkl", "w_2.pkl", "v.pkl", "v_1.pkl"}

FileContents == {"old", "new"}

InitResolve ==
    /\ InitAlloc
    /\ InitStore
    /\ InitSimpleIdle
    /\ InitAnumIdle
    /\ InitConcIdle
    /\ \E present \in SUBSET ResolvePaths : files = [p \in present |-> "old"]
    /\ resolved = <<>>
    /\ InitBackupIdle
    /\ InitDocsIdle
    /\ InitRootsIdle

\* file_path, old_file_path = get_no_overwrite_path(base, suffix): no file is
\* created, opened or removed by the call
Resolve(file_path_no_suffix, suffix) ==
    /\ Len(resolved) < MaxCalls
    /\ LET r == get_no_overwrite_path(DOMAIN files, file_path_no_suffix, suffix) IN
       resolved' = Append(resolved,
                          [base |-> file_path_no_suffix, suffix |-> suffix,
                           existing |-> DOMAIN files,
                           file_path |-> r.file_path,
                           old_file_path |-> r.old_file_path])
    /\ UNCHANGED <<files, allocVars, storeVars, projectVars, backupVars, docVars, rootVars, simpleVars, anumVars, concVars>>

\* with open(file_path, 'wb') as f: the caller writes at the path it was given
CallerWrites(content) ==
    /\ Len(resolved) > 0
    /\ files' = Put(files, resolved[Len(resolved)].file_path, content)
    /\ UNCHANGED <<resolved, allocVars, storeVars, projectVars, backupVars, docVars, rootVars, simpleVars, anumVars, concVars>>

NextResolve ==
    \/ \E b \in ResolveBases, sfx \in ResolveSuffixes : Resolve(b, sfx)
    \/ \E content \in FileContents : CallerWrites(content)

SpecResolve == InitResolve /\ [][NextResolve]_vars

(***************************************************************************)
(* A caller of make_non_duplicate_backups: two run folders whose files     *)
(* share their names, one backup folder, and sources that may disappear    *)
(* between two calls.                                                      *)
(***************************************************************************)
MaxBackupCalls == 2

SourcePaths == {<<"run_a", "w.pt">>, <<"run_a", "log.txt">>,
                <<"run_b", "w.pt">>, <<"run_b", "log.txt">>}

BackupFolders == {"backup"}

BackupPaths == {<<"backup", "w.pt">>, <<"backup", "log.txt">>}

\* the content of a source file is the name of its run folder
SourceContent(path) == path[1]

\* the path lists handed in: up to two sources, repeats included
PathLists ==
    {<<>>} \cup {<<p>> : p \in SourcePaths}
           \cup {<<p, q>> : p \in SourcePaths, q \in SourcePaths}

InitBackup ==
    /\ InitAlloc
    /\ InitStore
    /\ InitSimpleIdle
    /\ InitAnumIdle
    /\ InitConcIdle
    /\ InitResolveIdle
    /\ InitDocsIdle
    /\ InitRootsIdle
    /\ \E sources \in SUBSET SourcePaths, stale \in SUBSET BackupPaths :
          tree = [p \in sources \cup stale |->
                     IF p \in sources THEN SourceContent(p) ELSE "stale"]
    /\ backups = <<>>

\* did_backup = make_non_duplicate_backups(path_list, path_to_backup_folder)
Backup(path_list, path_to_backup_folder) ==
    /\ Len(backups) < MaxBackupCalls
    /\ LET r == make_non_duplicate_backups(tree, path_list, path_to_backup_folder) IN
       /\ tree' = r.tree
       /\ backups' = Append(backups,
                            [path_list |-> path_list,
                             path_to_backup_folder |-> path_to_backup_folder,
                             did_backup |-> r.did_backup,
                             seen |-> r.seen,
                             before |-> tree,
                             after |-> r.tree])
    /\ UNCHANGED <<allocVars, storeVars, projectVars, resolveVars, docVars, rootVars, simpleVars, anumVars, concVars>>

\* a source file is deleted by its owner between two calls
SourceRemoved(path) ==
    /\ Len(backups) = 1
    /\ path \in DOMAIN tree
    /\ tree' = Remove(tree, path)
    /\ UNCHANGED <<backups, allocVars, storeVars, projectVars, resolveVars, docVars, rootVars, simpleVars, anumVars, concVars>>

NextBackup ==
    \/ \E path_list \in PathLists, folder \in BackupFolders : Backup(path_list, folder)
    \/ \E path \in SourcePaths : SourceRemoved(path)

SpecBackup == InitBackup /\ [][NextBackup]_vars

(***************************************************************************)
(* A caller of the document handlers: one YAML and one JSON document,      *)
(* written with and without no_overwrite, read back, and files that some   *)
(* other program left empty.                                               *)
(***************************************************************************)
MaxDocOps == 3

Formats == {"yaml", "json"}

DocBase(fmt) == IF fmt = "yaml" THEN "main" ELSE "tiny_db"

DocSuffix(fmt) == IF fmt = "yaml" THEN ".yaml" ELSE ".json"

DocPaths(fmt) ==
    IF fmt = "yaml" THEN {"main.yaml", "main_1.yaml", "main_2.yaml"}
    ELSE {"tiny_db.json", "tiny_db_1.json", "tiny_db_2.json"}

\* the paths that may hold an empty file
TouchPaths == {"main.yaml", "tiny_db.json"}

\* the path argument as a str and as a pathlib.Path
PathArgs(fmt) == {StrPath(DocBase(fmt)), PurePath(DocBase(fmt))}

OneEntry == [key \in {StrKey("lr")} |-> StrVal("x")]

TwoEntries ==
    [key \in {StrKey("lr"), StrKey("layers")} |->
        IF key = StrKey("lr") THEN StrVal("y") ELSE ListVal(<<"a", "b">>)]

WithTuple == [key \in {StrKey("shape")} |-> TupleVal(<<"a", "b">>)]

WithIntKey == [key \in {IntKey("1")} |-> StrVal("x")]

\* the mappings handed to the writers
Documents == {EmptyMap, OneEntry, TwoEntries, WithTuple, WithIntKey}

InitDocs ==
    /\ InitAlloc
    /\ InitStore
    /\ InitSimpleIdle
    /\ InitAnumIdle
    /\ InitConcIdle
    /\ InitResolveIdle
    /\ InitBackupIdle
    /\ InitRootsIdle
    /\ docs = EmptyMap
    /\ io = <<>>

\* write_yaml / write_json(doc, file_path_no_suffix, suffix, no_overwrite)
WriteDoc(fmt, doc, file_path_no_suffix, no_overwrite) ==
    /\ Len(io) < MaxDocOps
    /\ LET r == IF fmt = "yaml"
                THEN write_yaml(docs, doc, file_path_no_suffix, DocSuffix(fmt), no_overwrite)
                ELSE write_json(docs, doc, file_path_no_suffix, DocSuffix(fmt), no_overwrite)
       IN  /\ docs' = r.docs
           /\ io' = Append(io, [op |-> "write", fmt |-> fmt, doc |-> doc,
                                path_type |-> file_path_no_suffix.type,
                                path |-> str(file_path_no_suffix) \o DocSuffix(fmt),
                                no_overwrite |-> no_overwrite,
                                outcome |-> r.outcome, file_path |-> r.file_path,
                                value |-> EmptyMap, before |-> docs,
                                after |-> r.docs])
    /\ UNCHANGED <<allocVars, storeVars, projectVars, resolveVars, backupVars, rootVars, simpleVars, anumVars, concVars>>

\* get_yaml / get_json(path)
ReadDoc(fmt, path) ==
    /\ Len(io) < MaxDocOps
    /\ LET r == IF fmt = "yaml" THEN get_yaml(docs, path) ELSE get_json(docs, path) IN
       io' = Append(io, [op |-> "read", fmt |-> fmt, doc |-> EmptyMap,
                         path_type |-> "str", path |-> path, no_overwrite |-> FALSE,
                         outcome |-> r.outcome, file_path |-> path,
                         value |-> r.value, before |-> docs, after |-> docs])
    /\ UNCHANGED <<docs, allocVars, storeVars, projectVars, resolveVars, backupVars, rootVars, simpleVars, anumVars, concVars>>

\* another program has left an empty file at a document path before the
\* caller starts
Touch(path) ==
    /\ Len(io) = 0
    /\ path \notin DOMAIN docs
    /\ docs' = Put(docs, path, EmptyFile)
    /\ UNCHANGED <<io, allocVars, storeVars, projectVars, resolveVars, backupVars, rootVars, simpleVars, anumVars, concVars>>

NextDocs ==
    \/ \E fmt \in Formats, doc \in Documents, no_overwrite \in BOOLEAN :
          \E file_path_no_suffix \in PathArgs(fmt) :
             WriteDoc(fmt, doc, file_path_no_suffix, no_overwrite)
    \/ \E fmt \in Formats : \E path \in DocPaths(fmt) : ReadDoc(fmt, path)
    \/ \E path \in TouchPaths : Touch(path)

SpecDocs == InitDocs /\ [][NextDocs]_vars

(***************************************************************************)
(* The callers of main: exact paths and container calls, relative and      *)
(* absolute, on the container of each module, and folders that something   *)
(* else made there, bare or with a main.yaml of their own.                 *)
(***************************************************************************)
MaxMainCalls == 2

Modules == {"ssf", "pss"}

ExactNames == {"unet_large", "segnet_small"}

ExactPaths == [abs : BOOLEAN, child : ExactNames]

ContainerPaths == [abs : BOOLEAN, child : {""}]

\* a main.yaml somebody filled in
FilledConfig == Put(EmptyMap, "project_name", "ML_Project")

InitRoots ==
    /\ InitAlloc
    /\ InitStore
    /\ InitSimpleIdle
    /\ InitAnumIdle
    /\ InitConcIdle
    /\ InitResolveIdle
    /\ InitBackupIdle
    /\ InitDocsIdle
    /\ stores = [ssf |-> AbsentStore, pss |-> AbsentStore]
    /\ mains = <<>>

\* ssf.main / pss.main(path_to_storage, path_is_only_to_container, semantic_id_of_proc)
Main(module, path_to_storage, path_is_only_to_container, semantic_id_of_proc) ==
    /\ Len(mains) < MaxMainCalls
    /\ LET r == IF module = "ssf"
                THEN ssf_main(stores[module], path_to_storage,
                              path_is_only_to_container, semantic_id_of_proc)
                ELSE pss_main(stores[module], path_to_storage,
                              path_is_only_to_container, semantic_id_of_proc)
       IN  /\ stores' = [stores EXCEPT ![module] = r.store]
           /\ mains' = Append(mains,
                              [op |-> "main", module |-> module, path |-> path_to_storage,
                               only_container |-> path_is_only_to_container,
                               semantic_id |-> semantic_id_of_proc,
                               returned |-> r.returned,
                               before |-> stores,
                               after |-> [stores EXCEPT ![module] = r.store]])
    /\ UNCHANGED <<allocVars, storeVars, projectVars, resolveVars, backupVars, docVars, simpleVars, anumVars, concVars>>

\* a folder made in the container by something else: bare, or holding a
\* main.yaml with content and nothing else of the layout
ExternalFolder(module, child, with_main) ==
    /\ child \notin DOMAIN stores[module].roots
    /\ LET absent == IF module = "ssf" THEN AbsentRoot ELSE PssAbsentRoot
           d == [absent EXCEPT !.dir = TRUE,
                               !.main = IF with_main THEN DumpDoc(FilledConfig) ELSE @]
       IN  stores' = [stores EXCEPT ![module] =
                         [dir |-> TRUE, roots |-> Put(stores[module].roots, child, d)]]
    /\ UNCHANGED <<mains, allocVars, storeVars, projectVars, resolveVars, backupVars, docVars, simpleVars, anumVars, concVars>>

NextRoots ==
    \/ \E module \in Modules, path \in ExactPaths : Main(module, path, FALSE, "")
    \/ \E module \in Modules, path \in ContainerPaths, semantic_id \in Labels :
          Main(module, path, TRUE, semantic_id)
    \/ \E module \in Modules, child \in ExactNames, with_main \in BOOLEAN :
          ExternalFolder(module, child, with_main)

SpecRoots == InitRoots /\ [][NextRoots]_vars

(***************************************************************************)
(* setup called on a root that is already there, in any state: each        *)
(* document missing, empty, {} or filled, each subfolder there or not.     *)
(***************************************************************************)
MaxSetupCalls == 2

EmptyDoc == [st |-> "empty", data |-> EmptyMap]

\* what a document of a root may hold before setup runs
DocStates == {AbsentDoc, EmptyDoc, DumpDoc(EmptyMap), DumpDoc(FilledConfig)}

SsfRootStates ==
    [dir : {TRUE}, main : DocStates, shared : DocStates, tree : DocStates,
     db : DocStates, old_yamls : BOOLEAN, files_dir : BOOLEAN, files : {EmptyMap}]

PssRootStates ==
    [dir : {TRUE}, main : DocStates, db : DocStates, old_yamls : BOOLEAN,
     pickles_and_such : BOOLEAN, symlink_tree : BOOLEAN, write_only_tree : BOOLEAN]

InitSetup ==
    /\ InitAlloc
    /\ InitStore
    /\ InitSimpleIdle
    /\ InitAnumIdle
    /\ InitConcIdle
    /\ InitResolveIdle
    /\ InitBackupIdle
    /\ InitDocsIdle
    /\ \/ \E d \in SsfRootStates :
             stores = [ssf |-> [dir |-> TRUE, roots |-> Put(EmptyMap, "unet_large", d)],
                       pss |-> AbsentStore]
       \/ \E d \in PssRootStates :
             stores = [ssf |-> AbsentStore,
                       pss |-> [dir |-> TRUE, roots |-> Put(EmptyMap, "unet_large", d)]]
    /\ mains = <<>>

\* ssf.setup / pss.setup(path_to_novel_storage_folder) on a folder that exists
Setup(module, child) ==
    /\ Len(mains) < MaxSetupCalls
    /\ child \in DOMAIN stores[module].roots
    /\ LET d == stores[module].roots[child]
           after == [stores EXCEPT ![module].roots[child] =
                        IF module = "ssf" THEN setup(d) ELSE pss_setup(d)]
       IN  /\ stores' = after
           /\ mains' = Append(mains,
                              [op |-> "setup", module |-> module,
                               path |-> [abs |-> FALSE, child |-> child],
                               only_container |-> FALSE, semantic_id |-> "",
                               returned |-> [abs |-> FALSE, child |-> child],
                               before |-> stores, after |-> after])
    /\ UNCHANGED <<allocVars, storeVars, projectVars, resolveVars, backupVars, docVars, simpleVars, anumVars, concVars>>

NextSetup == \E module \in Modules, child \in ExactNames : Setup(module, child)

SpecSetup == InitSetup /\ [][NextSetup]_vars

(***************************************************************************)
(* One process using SimpleMLStorage: setup, load, training that changes   *)
(* the two objects, save.                                                  *)
(***************************************************************************)
MaxSimpleOps == 6

SimpleProjectNames == {"image_classifier"}

SimpleRoot ==
    IF simple.storage_path = "None" THEN AbsentRoot ELSE sroots[simple.storage_path]

WithSimpleRoot(d) ==
    IF simple.storage_path = "None" THEN sroots
    ELSE [sroots EXCEPT ![simple.storage_path] = d]

SimpleOthersUnchanged ==
    UNCHANGED <<allocVars, storeVars, projectVars, resolveVars, backupVars, docVars, rootVars,
                anumVars, concVars>>

\* ml_storage.setup(project_folder, project_name)
SimpleSetup(project_name) ==
    /\ sclock < MaxSimpleOps
    /\ LET r == simple_setup(simple, sroots, project_name) IN
       /\ simple' = r.mem
       /\ sroots' = r.roots
    /\ slast' = [SimpleNoOp EXCEPT !.op = "setup", !.mem = simple, !.roots = sroots]
    /\ sclock' = sclock + 1
    /\ SimpleOthersUnchanged

\* ml_storage.load(), returning or raising
SimpleLoad ==
    /\ sclock < MaxSimpleOps
    /\ LET r == simple_load(simple, SimpleRoot, sclock) IN
       /\ simple' = r.mem
       /\ slast' = [SimpleNoOp EXCEPT !.op = "load", !.outcome = r.outcome,
                                      !.mem = simple, !.roots = sroots]
    /\ sclock' = sclock + 1
    /\ UNCHANGED sroots
    /\ SimpleOthersUnchanged

\* ml_storage.save(), returning or raising
SimpleSave ==
    /\ sclock < MaxSimpleOps
    /\ LET r == simple_save(simple, SimpleRoot, sclock) IN
       /\ simple' = r.mem
       /\ sroots' = WithSimpleRoot(r.root)
       /\ slast' = [SimpleNoOp EXCEPT !.op = "save", !.outcome = r.outcome,
                                      !.writes = r.writes,
                                      !.mem = simple, !.roots = sroots]
    /\ sclock' = sclock + 1
    /\ SimpleOthersUnchanged

\* ml_storage.training_logs.add_epoch(...) of the training loop
SimpleAddEpoch ==
    /\ sclock < MaxSimpleOps
    /\ simple.training_logs.cls = "TrainingLogs"
    /\ simple' = [simple EXCEPT !.training_logs = add_epoch(@)]
    /\ slast' = [SimpleNoOp EXCEPT !.op = "add_epoch", !.mem = simple, !.roots = sroots]
    /\ sclock' = sclock + 1
    /\ UNCHANGED sroots
    /\ SimpleOthersUnchanged

\* ml_storage.model_wrapper.update_model(mock_model) of the training loop
SimpleUpdateModel ==
    /\ sclock < MaxSimpleOps
    /\ simple.model_wrapper.cls = "ModelWrapper"
    /\ simple' = [simple EXCEPT !.model_wrapper = update_model(@, "mock_model", sclock)]
    /\ slast' = [SimpleNoOp EXCEPT !.op = "update_model", !.mem = simple, !.roots = sroots]
    /\ sclock' = sclock + 1
    /\ UNCHANGED sroots
    /\ SimpleOthersUnchanged

NextSimple ==
    \/ \E project_name \in SimpleProjectNames : SimpleSetup(project_name)
    \/ SimpleLoad
    \/ SimpleSave
    \/ SimpleAddEpoch
    \/ SimpleUpdateModel

SpecSimple == Init /\ [][NextSimple]_vars

(***************************************************************************)
(* One call of novel_folder_anum on a parent in which every name of the    *)
(* namespace but one is taken; random.randrange picks the start.           *)
(***************************************************************************)
MaxDigitNum == 1

InitAnum ==
    /\ InitAlloc
    /\ InitStore
    /\ InitResolveIdle
    /\ InitBackupIdle
    /\ InitDocsIdle
    /\ InitRootsIdle
    /\ InitSimpleIdle
    /\ InitConcIdle
    /\ \E digit_num \in 1..MaxDigitNum :
          \E free, start \in 0..(max_num(digit_num) - 1) :
             anum = AnumCall(digit_num, _to_base62(free, digit_num), start)

AnumOthersUnchanged ==
    UNCHANGED <<allocVars, storeVars, projectVars, resolveVars, backupVars, docVars, rootVars,
                simpleVars, concVars>>

\* a pass of the loop that finds the name taken and goes on
AnumProbeTaken ==
    /\ anum.returned = "None"
    /\ anum.probes <= max_num(anum.digit_num)
    /\ anum_probe(anum).returned = "None"
    /\ anum' = anum_probe(anum)
    /\ AnumOthersUnchanged

\* the pass that finds the name free, makes the folder and returns
AnumProbeFree ==
    /\ anum.returned = "None"
    /\ anum.probes <= max_num(anum.digit_num)
    /\ anum_probe(anum).returned # "None"
    /\ anum' = anum_probe(anum)
    /\ AnumOthersUnchanged

NextAnum == AnumProbeTaken \/ AnumProbeFree

SpecAnum == InitAnum /\ [][NextAnum]_vars

\* the loop is run by one thread that nothing suspends
SpecAnumFair == SpecAnum /\ WF_vars(NextAnum)

(***************************************************************************)
(* One call of novel_folder_anum or of novel_filename_anum on a parent     *)
(* holding any of a family of name sets, all names and none included.      *)
(***************************************************************************)
MaxAnyDigitNum == 2

AnumSuffixes == {"", ".pkl"}

\* the numbers whose names exist in the parent
AnumTakenChoices(digit_num) ==
    LET top == max_num(digit_num) - 1 IN
    {{}, {0}, {0, 1}, {top, 0}, {top, 0, 1}}
    \cup (IF digit_num = 1
          THEN {0..top, 0..top \ {7}, 0..top \ {0, top}, 10..40}
          ELSE {})

\* the draws of random.randrange(max_num)
AnumStartChoices(digit_num) ==
    LET top == max_num(digit_num) - 1 IN
    IF digit_num = 1 THEN 0..top ELSE {0, 1, top - 1, top}

InitAnumAny ==
    /\ InitAlloc
    /\ InitStore
    /\ InitResolveIdle
    /\ InitBackupIdle
    /\ InitDocsIdle
    /\ InitRootsIdle
    /\ InitSimpleIdle
    /\ InitConcIdle
    /\ \E digit_num \in 1..MaxAnyDigitNum :
          \E taken \in AnumTakenChoices(digit_num), start \in AnumStartChoices(digit_num) :
             \/ anum = AnumCallOn("folder", "", digit_num,
                                  {_to_base62(k, digit_num) : k \in taken}, "", start)
             \/ \E suffix \in AnumSuffixes :
                   anum = AnumCallOn("filename", suffix, digit_num,
                                     {_to_base62(k, digit_num) \o suffix : k \in taken},
                                     "", start)

SpecAnumAny == InitAnumAny /\ [][NextAnum]_vars

(***************************************************************************)
(* Two processes calling novel_start_of_folder on one parent, each         *)
(* osp.exists test and each os.makedirs a step of its own.                 *)
(***************************************************************************)
MaxRaceCalls == 2

Procs == {1, 2}

\* what the parent holds when the processes start
RaceListings == {{}, {"999_unet"}, {"999_unet", "998_unet"}}

ConcOthersUnchanged ==
    UNCHANGED <<allocVars, storeVars, projectVars, resolveVars, backupVars, docVars, rootVars,
                simpleVars, anumVars>>

IdleCaller(semantic_id) ==
    [semantic_id |-> semantic_id, pc |-> "idle", loop |-> LoopStart(semantic_id),
     returned |-> "None", outcome |-> "ok", calls |-> 0]

InitRace ==
    /\ InitAlloc
    /\ InitStore
    /\ InitResolveIdle
    /\ InitBackupIdle
    /\ InitDocsIdle
    /\ InitRootsIdle
    /\ InitSimpleIdle
    /\ InitAnumIdle
    /\ \E listing \in RaceListings, ids \in [Procs -> Labels] :
          conc = [listing |-> listing, procs |-> [p \in Procs |-> IdleCaller(ids[p])]]

\* process p enters novel_start_of_folder: lines 24-27
RaceCall(p) ==
    /\ conc.procs[p].pc = "idle"
    /\ conc.procs[p].calls < MaxRaceCalls
    /\ conc' = [conc EXCEPT !.procs[p].pc = "test",
                            !.procs[p].loop = LoopStart(conc.procs[p].semantic_id),
                            !.procs[p].calls = @ + 1]
    /\ ConcOthersUnchanged

\* one evaluation of `while osp.exists(folder_path)` and, when it is true,
\* the loop body
RaceTest(p) ==
    /\ conc.procs[p].pc = "test"
    /\ conc' = IF conc.procs[p].loop.folder_path \in conc.listing
               THEN [conc EXCEPT !.procs[p].loop =
                                     LoopBody(@, conc.procs[p].semantic_id)]
               ELSE [conc EXCEPT !.procs[p].pc = "mkdir"]
    /\ ConcOthersUnchanged

\* os.makedirs(folder_path, exist_ok=True); return Path(folder_path)
RaceMkdir(p) ==
    /\ conc.procs[p].pc = "mkdir"
    /\ LET made == makedirs(conc.listing, conc.procs[p].loop.folder_path) IN
       conc' = [conc EXCEPT !.listing = made.listing,
                            !.procs[p].pc = "idle",
                            !.procs[p].outcome = made.outcome,
                            !.procs[p].returned =
                                IF made.outcome = "ok" THEN conc.procs[p].loop.folder_path
                                ELSE "None"]
    /\ ConcOthersUnchanged

NextRace == \E p \in Procs : RaceCall(p) \/ RaceTest(p) \/ RaceMkdir(p)

SpecRace == InitRace /\ [][NextRace]_vars

(***************************************************************************)
(* Two processes opening one root with singleton_storage_fns: main on the  *)
(* exact path, or setup on a directory that exists.  Each osp.exists test  *)
(* and each write is a step of its own; a process that has the root open   *)
(* fills documents in.                                                     *)
(***************************************************************************)
MaxPopulates == 1

\* the documents in the order setup goes through them
SetupOrder == <<"main", "shared", "tree", "db">>

SetupEntries == {"main", "setup"}

\* process p is between the first and the last step of main or setup
InsideSetup(p) == conc.procs[p].pc \notin {"start", "opened"}

InitInit ==
    /\ InitAlloc
    /\ InitStore
    /\ InitResolveIdle
    /\ InitBackupIdle
    /\ InitDocsIdle
    /\ InitRootsIdle
    /\ InitSimpleIdle
    /\ InitAnumIdle
    /\ conc = [root |-> AbsentRoot,
               procs |-> [p \in Procs |-> [pc |-> "start", i |-> 1]],
               overlap |-> FALSE, lost |-> FALSE, populates |-> 0]

\* process p calls main(path) on the exact path, or setup(path) on the
\* directory once it exists
InitEnter(p, entry) ==
    /\ conc.procs[p].pc = "start"
    /\ entry = "setup" => conc.root.dir
    /\ conc' = [conc EXCEPT !.procs[p].pc = IF entry = "main" THEN "root_test" ELSE "test",
                            !.overlap = @ \/ \E q \in Procs \ {p} : InsideSetup(q)]
    /\ ConcOthersUnchanged

\* main: if not osp.exists(path_to_storage), lines 64 and 70-72
InitRootTest(p) ==
    /\ conc.procs[p].pc = "root_test"
    /\ conc' = [conc EXCEPT !.procs[p].pc = IF conc.root.dir THEN "opened" ELSE "mkdir"]
    /\ ConcOthersUnchanged

\* main: os.makedirs(path_to_storage, exist_ok=True), then setup is entered
InitMkdir(p) ==
    /\ conc.procs[p].pc = "mkdir"
    /\ conc' = [conc EXCEPT !.root.dir = TRUE, !.procs[p].pc = "test"]
    /\ ConcOthersUnchanged

\* setup: if not osp.exists(<document i>)
InitDocTest(p) ==
    /\ conc.procs[p].pc = "test"
    /\ LET i == conc.procs[p].i IN
       conc' = IF ~DocExists(conc.root[SetupOrder[i]])
               THEN [conc EXCEPT !.procs[p].pc = "write"]
               ELSE IF i < Len(SetupOrder) THEN [conc EXCEPT !.procs[p].i = i + 1]
               ELSE [conc EXCEPT !.procs[p].pc = "folders"]
    /\ ConcOthersUnchanged

\* setup: write_yaml({}, path) / write_json({}, path) of document i
InitDocWrite(p) ==
    /\ conc.procs[p].pc = "write"
    /\ LET i == conc.procs[p].i
           field == SetupOrder[i]
       IN  conc' = [conc EXCEPT
                      !.root[field] = DumpDoc(EmptyMap),
                      !.lost = @ \/ LoadDoc(conc.root[field]) # EmptyMap,
                      !.procs[p].pc = IF i < Len(SetupOrder) THEN "test" ELSE "folders",
                      !.procs[p].i = IF i < Len(SetupOrder) THEN i + 1 ELSE i]
    /\ ConcOthersUnchanged

\* setup: the two os.makedirs(..., exist_ok=True) and the return
InitFolders(p) ==
    /\ conc.procs[p].pc = "folders"
    /\ conc' = [conc EXCEPT !.root.old_yamls = TRUE, !.root.files_dir = TRUE,
                            !.procs[p].pc = "opened"]
    /\ ConcOthersUnchanged

\* a process that has the root open writes its data into a document
InitPopulate(p, field) ==
    /\ conc.procs[p].pc = "opened"
    /\ conc.populates < MaxPopulates
    /\ conc' = [conc EXCEPT !.root[field] = DumpDoc(FilledConfig), !.populates = @ + 1]
    /\ ConcOthersUnchanged

NextInit ==
    \E p \in Procs :
        \/ \E entry \in SetupEntries : InitEnter(p, entry)
        \/ InitRootTest(p)
        \/ InitMkdir(p)
        \/ InitDocTest(p)
        \/ InitDocWrite(p)
        \/ InitFolders(p)
        \/ \E i \in DOMAIN SetupOrder : InitPopulate(p, SetupOrder[i])

SpecInit == InitInit /\ [][NextInit]_vars

(***************************************************************************)
(* Two processes with one MLStorage each, open on the same root.  Every    *)
(* process has its own in-memory copy of the four documents; the calls of  *)
(* the two processes alternate in any order.                               *)
(***************************************************************************)
MaxSessionClock == 4

SessionRoot == "proj_a"

\* nothing, a model, logs with the hook and model=None
SessionKwargs ==
    { <<>>, <<Kw("model", ModelDict)>>, <<Kw("logs", TrainingLogs), Kw("model", PyNone)>> }

NoSessionCall == [op |-> "none", p |-> 0, name |-> "", outcome |-> "ok", found |-> "None"]

\* both processes have a root open
BothOpen(sess) == \A p \in Procs : sess[p].project_path # "None"

\* the current_phase of the shared state on disk ("None": there is none)
PersistedPhase(d) == Get(LoadDoc(d.shared), "current_phase", "None")

\* sess: the MLStorage of each process; acked: the names whose save returned;
\* overlap: two sessions have been open at once; lastChange: the argument of
\* the last change_phase on the root; restored: the persisted phase each
\* session found when it opened the root; changes: its change_phase calls
\* since then
InitSessions ==
    /\ InitAlloc
    /\ InitStore
    /\ InitResolveIdle
    /\ InitBackupIdle
    /\ InitDocsIdle
    /\ InitRootsIdle
    /\ InitSimpleIdle
    /\ InitAnumIdle
    /\ conc = [root |-> AbsentRoot, sess |-> [p \in Procs |-> InitMem], clock |-> 0,
               acked |-> {}, last |-> NoSessionCall, overlap |-> FALSE,
               lastChange |-> "None", restored |-> [p \in Procs |-> "None"],
               changes |-> [p \in Procs |-> 0]]

\* process p: storage.initial_setup(SessionRoot)
SessionSetup(p) ==
    /\ conc.clock < MaxSessionClock
    /\ conc.sess[p].project_path = "None"
    /\ LET res == initial_setup(conc.sess[p], conc.root, SessionRoot, "ML_Project",
                                conc.clock)
           sess == [conc.sess EXCEPT ![p] = res.mem] IN
       conc' = [conc EXCEPT !.root = res.root, !.sess = sess, !.clock = @ + 1,
                            !.overlap = @ \/ BothOpen(sess),
                            !.restored[p] = PersistedPhase(conc.root),
                            !.changes[p] = 0,
                            !.last = [NoSessionCall EXCEPT
                                          !.op = "initial_setup", !.p = p,
                                          !.found = PersistedPhase(conc.root)]]
    /\ ConcOthersUnchanged

\* process p: storage.change_phase(new_phase)
SessionChangePhase(p, new_phase) ==
    /\ conc.clock < MaxSessionClock
    /\ LET res == change_phase(conc.sess[p], conc.root, new_phase, conc.clock)
           open == conc.sess[p].project_path # "None" IN
       conc' = [conc EXCEPT !.root = res.root, !.sess[p] = res.mem, !.clock = @ + 1,
                            !.lastChange = IF open THEN new_phase ELSE @,
                            !.changes[p] = IF open THEN @ + 1 ELSE @,
                            !.last = [NoSessionCall EXCEPT
                                          !.op = "change_phase", !.p = p, !.name = new_phase]]
    /\ ConcOthersUnchanged

\* process p: storage.save_checkpoint(name, **kwargs), returning or raising
SessionSave(p, name, kwargs) ==
    /\ conc.clock < MaxSessionClock
    /\ conc.sess[p].project_path # "None"
    /\ LET res == save_checkpoint(conc.sess[p], conc.root, name, kwargs, conc.clock,
                                  AllWrites) IN
       conc' = [conc EXCEPT !.root = res.root, !.sess[p] = res.mem, !.clock = @ + 1,
                            !.acked = IF res.outcome = "ok" THEN @ \cup {name} ELSE @,
                            !.last = [NoSessionCall EXCEPT
                                          !.op = "save_checkpoint", !.p = p, !.name = name,
                                          !.outcome = res.outcome]]
    /\ ConcOthersUnchanged

\* process p exits and a new process takes its place: storage = MLStorage()
SessionExit(p) ==
    /\ conc.sess[p].project_path # "None"
    /\ conc' = [conc EXCEPT !.sess[p] = InitMem, !.restored[p] = "None", !.changes[p] = 0,
                            !.last = [NoSessionCall EXCEPT !.op = "exit", !.p = p]]
    /\ ConcOthersUnchanged

NextSessions ==
    \E p \in Procs :
        \/ SessionSetup(p)
        \/ \E new_phase \in PhaseArgs : SessionChangePhase(p, new_phase)
        \/ \E name \in CheckpointNames, kwargs \in SessionKwargs : SessionSave(p, name, kwargs)
        \/ SessionExit(p)

SpecSessions == InitSessions /\ [][NextSessions]_vars

(***************************************************************************)
(* shared_storage.py: AllPaths, the singleton that turns the relative      *)
(* paths of ImmutablePathDefinitions into paths under a files folder.  cls *)
(* holds the attributes of the class, inst those assigned on the instance; *)
(* reading an attribute through the instance finds inst first, reading it  *)
(* through the class finds cls only.                                       *)
(***************************************************************************)
MaxPathCalls == 5

FilesFolders == {"run_a/files", "run_b/files", "run_c/files"}

\* the class body of AllPaths, lines 92-105
AllPathsClass ==
    [IS_FULLY_INITIALIZED |-> "False", PATH_FILES_FOLDER |-> "None", PATH_GRAPHS |-> "None",
     PATH_TEST_SHOWCASE_IMAGES |-> "None", PATH_BACKUPS_WEIGHTS |-> "None",
     _instance |-> "None", _initialized |-> "False"]

\* the attributes whose value is a Path or None and whose name has no
\* leading underscore
PathAttributes ==
    {"PATH_FILES_FOLDER", "PATH_GRAPHS", "PATH_TEST_SHOWCASE_IMAGES", "PATH_BACKUPS_WEIGHTS"}

\* Path / str
PathJoin(folder, name) == folder \o "/" \o name

\* is not None, as a Python bool
IsNotNone(value) == IF value # "None" THEN "True" ELSE "False"

\* getattr(self, attr): the instance attribute when there is one
InstanceAttr(c, attr) == IF attr \in DOMAIN c.inst THEN c.inst[attr] ELSE c.cls[attr]

\* check_and_set_if_already_fully_initialized(): AllPaths.PATH_FILES_FOLDER
\* is read from the class, AllPaths.IS_FULLY_INITIALIZED assigned on it
check_and_set_if_already_fully_initialized(c) ==
    LET is_fully_initialized == IsNotNone(c.cls.PATH_FILES_FOLDER) IN
    [paths |-> [c EXCEPT !.cls.IS_FULLY_INITIALIZED = is_fully_initialized],
     returned |-> is_fully_initialized]

\* set_files_folder(files_folder): four assignments on self, three
\* os.makedirs(..., exist_ok=True), then the test
set_files_folder(c, files_folder) ==
    LET graphs == PathJoin(files_folder, "graphs")
        images == PathJoin(files_folder, "test_showcase_images")
        weights == PathJoin(files_folder, "backups/weights")
        c1 == [c EXCEPT !.inst = [PATH_FILES_FOLDER |-> files_folder,
                                  PATH_GRAPHS |-> graphs,
                                  PATH_TEST_SHOWCASE_IMAGES |-> images,
                                  PATH_BACKUPS_WEIGHTS |-> weights],
                        !.dirs = @ \cup {files_folder, graphs, images,
                                         PathJoin(files_folder, "backups"), weights}]
    IN  check_and_set_if_already_fully_initialized(c1).paths

\* get_paths_as_dict(): the path attributes as the instance shows them
get_paths_as_dict(c) == [attr \in PathAttributes |-> InstanceAttr(c, attr)]

NoPathsCall == [op |-> "none", returned |-> "None"]

\* cls, inst: the attributes; dirs: the directories on disk; calls: the
\* calls made; set_calls: those of set_files_folder
InitPaths ==
    /\ InitAlloc
    /\ InitStore
    /\ InitResolveIdle
    /\ InitBackupIdle
    /\ InitDocsIdle
    /\ InitRootsIdle
    /\ InitSimpleIdle
    /\ InitAnumIdle
    /\ conc = [cls |-> AllPathsClass, inst |-> EmptyMap, dirs |-> {}, calls |-> 0,
               set_calls |-> 0, last |-> NoPathsCall]

\* AllPaths(): __new__ makes the instance once, __init__ sets _initialized
AllPathsNew ==
    /\ conc.calls < MaxPathCalls
    /\ conc' = [conc EXCEPT !.cls._instance = "AllPaths", !.cls._initialized = "True",
                            !.calls = @ + 1,
                            !.last = [op |-> "AllPaths", returned |-> "AllPaths"]]
    /\ ConcOthersUnchanged

\* AllPaths().set_files_folder(files_folder) on the instance
SetFilesFolder(files_folder) ==
    /\ conc.calls < MaxPathCalls
    /\ conc.cls._instance # "None"
    /\ conc' = [set_files_folder(conc, files_folder) EXCEPT
                    !.calls = @ + 1, !.set_calls = @ + 1,
                    !.last = [op |-> "set_files_folder", returned |-> "None"]]
    /\ ConcOthersUnchanged

\* a caller asks check_and_set_if_already_fully_initialized() itself
CheckFullyInitialized ==
    /\ conc.calls < MaxPathCalls
    /\ conc.cls._instance # "None"
    /\ LET res == check_and_set_if_already_fully_initialized(conc) IN
       conc' = [res.paths EXCEPT !.calls = @ + 1,
                                 !.last = [op |-> "check", returned |-> res.returned]]
    /\ ConcOthersUnchanged

\* a caller asks get_paths_as_dict()
GetPathsAsDict ==
    /\ conc.calls < MaxPathCalls
    /\ conc.cls._instance # "None"
    /\ conc' = [conc EXCEPT !.calls = @ + 1,
                            !.last = [op |-> "get_paths_as_dict",
                                      returned |-> get_paths_as_dict(conc)]]
    /\ ConcOthersUnchanged

NextPaths ==
    \/ AllPathsNew
    \/ \E files_folder \in FilesFolders : SetFilesFolder(files_folder)
    \/ CheckFullyInitialized
    \/ GetPathsAsDict

SpecPaths == InitPaths /\ [][NextPaths]_vars

(***************************************************************************)
(* Vocabulary of the properties.                                           *)
(***************************************************************************)
TotalAllocs == allocs["unet"] + allocs["segnet"]

Injective(m) == \A a \in DOMAIN m, b \in DOMAIN m : m[a] = m[b] => a = b

SaveStep == last'.op = "save_checkpoint"

ProjectSaveStep == last'.op = "project_save_checkpoint"

SavedOk == last.op = "save_checkpoint" /\ last.outcome = "ok"

ProjectSavedOk == last.op = "project_save_checkpoint" /\ last.outcome = "ok"

SavedTwice ==
    /\ SavedOk
    /\ last'.op = "save_checkpoint" /\ last'.outcome = "ok"
    /\ last'.name = last.name /\ last'.root = last.root

ProjectSavedTwice ==
    /\ ProjectSavedOk
    /\ last'.op = "project_save_checkpoint" /\ last'.outcome = "ok"
    /\ last'.name = last.name /\ last'.root = last.root

\* the key of a role in the checkpoint_data of MLProjectStorage
IndexKey(role) == IF role = "extra_data" THEN "extra_file" ELSE role \o "_file"

RecordedKinds(info) == {kind \in {"model", "logs", "extra"} : Has(info, kind \o "_file")}

\* checkpoint_info['files'] of an MLStorage index entry
EntryFiles(n) == mem.checkpoint_db[n].files

Gone(f) == ~Has(OpenRoot.files, f)

\* the file is still the one save_checkpoint wrote
Intact(f) ==
    /\ Has(OpenRoot.files, f)
    /\ Has(pickled[mem.project_path], f)
    /\ OpenRoot.files[f] = Pickle(pickled[mem.project_path][f])

LoadOfAbsentName ==
    last'.op = "load_checkpoint" /\ ~Has(mem.checkpoint_db, last'.name)

ProjectLoadOfAbsentName ==
    last'.op = "project_load_checkpoint" /\ ~Has(project.saved_checkpoints, last'.name)

SaveRaised ==
    /\ last'.op = "save_checkpoint" /\ last'.outcome # "ok"
    /\ mem.project_path # "None"

\* shared_storage['phase_changes'] as persisted in root r
PersistedHistory(r) == Get(LoadDoc(disk[r].shared), "phase_changes", <<>>)

(***************************************************************************)
(* C1: N calls of novel_start_of_folder into an initially empty parent     *)
(* return N pairwise distinct paths, and every returned path exists as a   *)
(* directory afterwards.                                                   *)
(***************************************************************************)
C1_DistinctAndExist ==
    /\ Cardinality(returned) = TotalAllocs
    /\ returned \subseteq parent

\* the un-prefixed band was exhausted by calls with one label and the
\* allocator went on into the '#' band
C1_Witness ==
    /\ allocs["segnet"] = 0
    /\ allocs["unet"] >= 902
    /\ "100_unet" \in returned
    /\ "#998_unet" \in returned

(***************************************************************************)
(* C2: in both stores, every object file save_checkpoint writes goes to a  *)
(* path that did not exist immediately before the write (no two objects of *)
(* one call share a path either), so every file already under files/ keeps *)
(* its content across every later save_checkpoint, whether it returns or   *)
(* raises.                                                                 *)
(***************************************************************************)
C2_NoOverwrite ==
    [][/\ SaveStep =>
           /\ \A r \in Roots : \A f \in DOMAIN disk[r].files :
                 Has(disk'[r].files, f) /\ disk'[r].files[f] = disk[r].files[f]
           /\ Injective(last'.written)
           /\ \A role \in DOMAIN last'.written :
                 /\ ~Has(disk[last'.root].files, last'.written[role])
                 /\ disk'[last'.root].files[last'.written[role]] = Pickle(last'.objects[role])
       /\ ProjectSaveStep =>
           /\ \A r \in DOMAIN container : \A f \in DOMAIN container[r].files :
                 Has(container'[r].files, f) /\ container'[r].files[f] = container[r].files[f]
           /\ Injective(last'.written)
           /\ \A role \in DOMAIN last'.written :
                 /\ ~Has(container[last'.root].files, last'.written[role])
                 /\ container'[last'.root].files[last'.written[role]] =
                        Pickle(last'.objects[role])
      ]_vars

\* a save whose requested path was taken, so that the resolver renamed it
C2_Witness ==
    /\ last.op = "save_checkpoint"
    /\ Has(last.written, "model")
    /\ last.written["model"] = "c_model_1.pkl"
    /\ Has(disk[last.root].files, "c_model.pkl")

(***************************************************************************)
(* C3: after save_checkpoint(name, role=obj, ...) has returned on an open  *)
(* store, load_checkpoint(name) returns, for every role, an object equal   *)
(* to the one passed (as its prepare_for_save hook left it), and the index *)
(* entry of name carries the phase that was current at the save.  Stated   *)
(* here of MLProjectStorage.                                               *)
(***************************************************************************)
C3_ProjectRoundTrip ==
    ProjectSavedOk =>
        LET res == project_load_checkpoint(project, OpenProjectRoot, last.name) IN
        /\ res.outcome = "ok"
        /\ DOMAIN res.loaded = DOMAIN last.objects
        /\ \A role \in DOMAIN last.objects : res.loaded[role] = last.objects[role]
        /\ project.saved_checkpoints[last.name].phase = last.phase

\* the round trip of C3 stated of MLStorage
C3_RoundTrip ==
    SavedOk =>
        LET res == load_checkpoint(mem, OpenRoot, last.name) IN
        /\ res.outcome = "ok"
        /\ DOMAIN res.loaded = DOMAIN last.objects
        /\ \A role \in DOMAIN last.objects : res.loaded[role] = last.objects[role]
        /\ mem.checkpoint_db[last.name].phase = last.phase

\* MLStorage: a checkpoint saved again under its name, with an object whose
\* hook ran
C3_Witness ==
    /\ SavedOk
    /\ Has(last.objects, "logs") /\ last.objects["logs"].ready
    /\ Has(last.written, "model") /\ last.written["model"] # last.name \o "_model.pkl"

(***************************************************************************)
(* C4: two save_checkpoint calls in a row with the same name and role: the *)
(* index entry maps the role to the file the second call wrote, and the    *)
(* file the first call wrote is still there with the first object.  Stated *)
(* here of MLProjectStorage.                                               *)
(***************************************************************************)
C4_ProjectLastWriteWins ==
    [][ProjectSavedTwice =>
        \A role \in DOMAIN last.written \cap DOMAIN last'.written :
            /\ project'.saved_checkpoints[last'.name][IndexKey(role)] = last'.written[role]
            /\ Has(container'[last'.root].files, last.written[role])
            /\ container'[last'.root].files[last.written[role]] = Pickle(last.objects[role])
      ]_vars

\* last write wins, of C4, stated of MLStorage
C4_LastWriteWins ==
    [][SavedTwice =>
        \A role \in DOMAIN last.written \cap DOMAIN last'.written :
            /\ mem'.checkpoint_db[last.name].files[role] = last'.written[role]
            /\ last'.written[role] # last.written[role]
            /\ disk'[last.root].files[last'.written[role]] = Pickle(last'.objects[role])
            /\ Has(disk'[last.root].files, last.written[role])
            /\ disk'[last.root].files[last.written[role]] = Pickle(last.objects[role])
      ]_vars

\* MLStorage: "c" saved with one model and then with another
C4_Witness ==
    /\ SavedOk /\ last.name = "c" /\ mem.project_path # "None"
    /\ Has(OpenRoot.files, "c_model.pkl") /\ Has(OpenRoot.files, "c_model_1.pkl")
    /\ OpenRoot.files["c_model.pkl"] = Pickle(ModelDict)
    /\ OpenRoot.files["c_model_1.pkl"] = Pickle(TrainedModelDict)
    /\ mem.checkpoint_db["c"].files["model"] = "c_model_1.pkl"

(***************************************************************************)
(* C5: when a recorded file of a checkpoint has been deleted from disk and *)
(* its other recorded files are complete, load_checkpoint of that name     *)
(* does not raise.  Stated here of MLProjectStorage.                       *)
(***************************************************************************)
C5_ProjectPartialLoad ==
    project.storage_path # "None" =>
        \A n \in DOMAIN project.saved_checkpoints :
            LET info == project.saved_checkpoints[n] IN
            (\A kind \in RecordedKinds(info) :
                \/ ~Has(OpenProjectRoot.files, info[kind \o "_file"])
                \/ OpenProjectRoot.files[info[kind \o "_file"]].complete)
            => project_load_checkpoint(project, OpenProjectRoot, n).outcome = "ok"

\* the partial load of C5 stated of MLStorage: when every recorded file of a
\* checkpoint is either deleted or still what save_checkpoint wrote,
\* load_checkpoint returns the object of every surviving role and leaves
\* the deleted roles out of the result
C5_PartialLoad ==
    mem.project_path # "None" =>
        \A n \in DOMAIN mem.checkpoint_db :
            (\A role \in DOMAIN EntryFiles(n) :
                Gone(EntryFiles(n)[role]) \/ Intact(EntryFiles(n)[role]))
            => LET res == load_checkpoint(mem, OpenRoot, n) IN
               /\ res.outcome = "ok"
               /\ \A role \in DOMAIN EntryFiles(n) :
                     IF Gone(EntryFiles(n)[role])
                     THEN ~Has(res.loaded, role)
                     ELSE /\ Has(res.loaded, role)
                          /\ res.loaded[role] = pickled[mem.project_path][EntryFiles(n)[role]]

\* MLStorage: a checkpoint of two roles was loaded after the file of its
\* model was deleted: the result holds the logs alone
C5_Witness ==
    /\ last.op = "load_checkpoint" /\ last.outcome = "ok"
    /\ Has(mem.checkpoint_db, last.name)
    /\ DOMAIN EntryFiles(last.name) = {"model", "logs"}
    /\ Gone(EntryFiles(last.name)["model"])
    /\ DOMAIN last.loaded = {"logs"}
    /\ last.loaded["logs"] = prepare_for_save(TrainingLogs)

(***************************************************************************)
(* C6: in both stores, load_checkpoint of a name that is not in the        *)
(* checkpoint index raises the not-found error (ValueError) and changes    *)
(* neither the store's fields (index, shared state, file tree) nor         *)
(* anything on disk.                                                       *)
(***************************************************************************)
C6_NotFound ==
    [][(LoadOfAbsentName \/ ProjectLoadOfAbsentName) =>
        /\ last'.outcome = "ValueError"
        /\ last'.loaded = EmptyMap
        /\ mem' = mem
        /\ disk' = disk
        /\ project' = project
        /\ container' = container
      ]_vars

\* "c_1" was asked of an open MLStorage whose index holds "c" alone
C6_Witness ==
    /\ last.op = "load_checkpoint" /\ last.outcome = "ValueError"
    /\ last.name = "c_1"
    /\ DOMAIN mem.checkpoint_db = {"c"}
    /\ mem.project_path # "None"

(***************************************************************************)
(* C7: a save_checkpoint call that raises on an open store has updated the *)
(* checkpoint index neither in memory nor on disk.                         *)
(***************************************************************************)
C7_RaiseLeavesIndex ==
    [][SaveRaised =>
        /\ mem'.checkpoint_db = mem.checkpoint_db
        /\ \A r \in Roots : disk'[r].db = disk[r].db
      ]_vars

(***************************************************************************)
(* C8: at every crash point of save_checkpoint, a checkpoint that the      *)
(* on-disk shared state names as latest has its entry in the on-disk       *)
(* checkpoint index.                                                       *)
(***************************************************************************)
C8_IndexBeforeShared ==
    \A r \in Roots :
        LET shared == LoadDoc(disk[r].shared) IN
        (Has(shared, "latest_checkpoint") /\ shared["latest_checkpoint"] # "None")
            => Has(LoadDoc(disk[r].db), shared["latest_checkpoint"])

(***************************************************************************)
(* C9: the phase history persisted in a root holds one record per          *)
(* change_phase call made on that root, in call order, with from = the     *)
(* phase current before the call and to = its argument, and the persisted  *)
(* current phase is the argument of the last call.                         *)
(***************************************************************************)
C9_PhaseHistory ==
    \A r \in Roots :
        /\ Len(PersistedHistory(r)) = Len(phaseCalls[r])
        /\ \A i \in 1..Len(phaseCalls[r]) :
              /\ PersistedHistory(r)[i].from = phaseCalls[r][i][1]
              /\ PersistedHistory(r)[i].to = phaseCalls[r][i][2]
        /\ Len(phaseCalls[r]) > 0 =>
              LoadDoc(disk[r].shared)["current_phase"] = phaseCalls[r][Len(phaseCalls[r])][2]

(***************************************************************************)
(* C10: after a store is set up on a fresh root (no prior shared state),   *)
(* its current phase and the current_phase persisted in the root are the   *)
(* first declared tag, whatever the process did before.                    *)
(***************************************************************************)
C10_FreshRootStartsAtSetup ==
    (last.op = "initial_setup" /\ last.fresh) =>
        /\ mem.current_phase = "setup"
        /\ Has(LoadDoc(disk[last.root].shared), "current_phase")
        /\ LoadDoc(disk[last.root].shared)["current_phase"] = "setup"

(***************************************************************************)
(* Vocabulary of the resolver properties.                                  *)
(***************************************************************************)
\* this step is a get_no_overwrite_path call
ResolveStep == Len(resolved') = Len(resolved) + 1

PrevCall == resolved[Len(resolved)]

NewCall == resolved'[Len(resolved')]

\* this step is a call with the base and the suffix of the call before it
SecondCall ==
    /\ ResolveStep
    /\ Len(resolved) >= 1
    /\ NewCall.base = PrevCall.base
    /\ NewCall.suffix = PrevCall.suffix

(***************************************************************************)
(* C11, as amended: the second of two get_no_overwrite_path calls with the *)
(* same base and suffix returns a path different from the first one when a *)
(* file exists at the first returned path by the time of the second call,  *)
(* and the same path when no file was created in between; the call itself  *)
(* changes no file, so a file created at the first path keeps its content. *)
(***************************************************************************)
C11_DistinctOnceCreated ==
    [][SecondCall =>
          /\ files' = files
          /\ (PrevCall.file_path \in DOMAIN files
                  => NewCall.file_path # PrevCall.file_path)
          /\ (DOMAIN files = PrevCall.existing
                  => NewCall.file_path = PrevCall.file_path)]_vars

\* two calls for "w.pkl", a file written at the first returned path in between
C11_Witness ==
    /\ Len(resolved) >= 2
    /\ resolved[1].base = resolved[2].base
    /\ resolved[1].file_path \in resolved[2].existing
    /\ resolved[1].file_path \notin resolved[1].existing
    /\ resolved[2].file_path # resolved[1].file_path
    /\ resolved[1].file_path \in DOMAIN files
    /\ files[resolved[1].file_path] = "new"

\* C11 as stated: two calls with the same base and suffix always return two
\* distinct paths, and no file changes
C11_AlwaysDistinct ==
    [][SecondCall =>
          /\ files' = files
          /\ NewCall.file_path # PrevCall.file_path]_vars

(***************************************************************************)
(* C12: get_no_overwrite_path(base, suffix) returns base+suffix when that  *)
(* path does not exist, otherwise base_k+suffix for the smallest k >= 1    *)
(* whose path does not exist; the second returned value is base+suffix.    *)
(***************************************************************************)
C12_SmallestFreeIndex ==
    \A i \in 1..Len(resolved) :
        LET c == resolved[i]
            requested == c.base \o c.suffix
        IN  /\ c.old_file_path = requested
            /\ (requested \notin c.existing => c.file_path = requested)
            /\ (requested \in c.existing =>
                    \E k \in 1..(Cardinality(c.existing) + 1) :
                        /\ c.file_path = SuffixedPath(c.base, k, c.suffix)
                        /\ c.file_path \notin c.existing
                        /\ \A j \in 1..(k - 1) :
                               SuffixedPath(c.base, j, c.suffix) \in c.existing)

\* a call that had to skip the requested path and the first numbered one
C12_Witness ==
    \E i \in 1..Len(resolved) :
        /\ (resolved[i].base \o resolved[i].suffix) \in resolved[i].existing
        /\ SuffixedPath(resolved[i].base, 1, resolved[i].suffix) \in resolved[i].existing
        /\ resolved[i].file_path = SuffixedPath(resolved[i].base, 2, resolved[i].suffix)

(***************************************************************************)
(* Vocabulary of the backup properties.                                    *)
(***************************************************************************)
\* where the i-th entry of call c is backed up to
BackupPathOf(c, i) == join(c.path_to_backup_folder, basename(c.path_list[i]))

\* calls 1 and 2 have the same arguments and nothing changed in between
SameCallTwice ==
    /\ Len(backups) = 2
    /\ backups[1].path_list = backups[2].path_list
    /\ backups[1].path_to_backup_folder = backups[2].path_to_backup_folder
    /\ backups[2].before = backups[1].after

\* an earlier entry of the list is an existing source with the same basename
EarlierSameName(c, i) ==
    \E j \in 1..(i - 1) :
        /\ c.path_list[j] \in DOMAIN c.before
        /\ basename(c.path_list[j]) = basename(c.path_list[i])

(***************************************************************************)
(* C13: make_non_duplicate_backups returns a list of the length and order  *)
(* of its input; entry i is None iff source i does not exist when it is    *)
(* processed, False iff it exists and its basename exists in the backup    *)
(* folder when it is processed, True otherwise, and then the file has been *)
(* copied to backup_folder/basename.                                       *)
(***************************************************************************)
C13_BackupOutcomes ==
    \A n \in 1..Len(backups) :
        LET c == backups[n] IN
        /\ Len(c.did_backup) = Len(c.path_list)
        /\ \A i \in 1..Len(c.path_list) :
              LET source_exists == c.path_list[i] \in DOMAIN c.seen[i]
                  backup_exists == BackupPathOf(c, i) \in DOMAIN c.seen[i]
              IN  /\ c.did_backup[i] \in {"None", "False", "True"}
                  /\ (c.did_backup[i] = "None" <=> ~source_exists)
                  /\ (c.did_backup[i] = "False" <=> source_exists /\ backup_exists)
                  /\ (c.did_backup[i] = "True" =>
                         /\ BackupPathOf(c, i) \in DOMAIN c.after
                         /\ c.after[BackupPathOf(c, i)] = c.seen[i][c.path_list[i]])

\* one call with a missing source, a copied one, and the copy in place
C13_Witness ==
    \E n \in 1..Len(backups) :
        /\ backups[n].did_backup = <<"None", "True">>
        /\ BackupPathOf(backups[n], 2) \in DOMAIN tree
        /\ tree[BackupPathOf(backups[n], 2)] = SourceContent(backups[n].path_list[2])

(***************************************************************************)
(* C14, as amended: two calls with the same list and backup folder, with   *)
(* nothing changed in between, yield None both times for a missing source  *)
(* and False on the second call for every existing source; the first call  *)
(* yields True for an existing source exactly when no file of its basename *)
(* was in the backup folder before the call and no earlier entry of the    *)
(* list is an existing source of the same basename, and False otherwise.   *)
(***************************************************************************)
C14_TrueThenFalseForNewNames ==
    SameCallTwice =>
        \A i \in 1..Len(backups[1].path_list) :
            LET first == backups[1]
                second == backups[2]
                exists == first.path_list[i] \in DOMAIN first.before
            IN  /\ (~exists => first.did_backup[i] = "None" /\ second.did_backup[i] = "None")
                /\ (exists => second.did_backup[i] = "False")
                /\ (exists => (first.did_backup[i] = "True" <=>
                                  /\ BackupPathOf(first, i) \notin DOMAIN first.before
                                  /\ ~EarlierSameName(first, i)))
                /\ (exists => first.did_backup[i] \in {"True", "False"})

\* the same two-entry list twice: copied then present, missing both times
C14_Witness ==
    /\ SameCallTwice
    /\ backups[1].did_backup = <<"True", "None">>
    /\ backups[2].did_backup = <<"False", "None">>

\* C14 as stated: True then False for every existing source, None twice for
\* every missing one
C14_TrueThenFalseAlways ==
    SameCallTwice =>
        \A i \in 1..Len(backups[1].path_list) :
            IF backups[1].path_list[i] \in DOMAIN backups[1].before
            THEN backups[1].did_backup[i] = "True" /\ backups[2].did_backup[i] = "False"
            ELSE backups[1].did_backup[i] = "None" /\ backups[2].did_backup[i] = "None"

WriteThenRead(n) ==
    /\ n + 1 <= Len(io)
    /\ io[n].op = "write"
    /\ ~io[n].no_overwrite
    /\ io[n + 1].op = "read"
    /\ io[n + 1].fmt = io[n].fmt
    /\ io[n + 1].path = io[n].path

\* the mapping is made of what the format has a native form for: no tuple,
\* and for JSON string keys only
Representable(fmt, doc) ==
    /\ \A key \in DOMAIN doc : doc[key].t # "tuple"
    /\ fmt = "json" => \A key \in DOMAIN doc : key.k = "str"

\* what the reader of the format returns for a path of a file system
ReadBack(fmt, fs, path) ==
    IF fmt = "yaml" THEN get_yaml(fs, path) ELSE get_json(fs, path)

\* the first free numbered path of call c is its file_path
FirstFreePath(c) ==
    \E k \in 1..(Cardinality(DOMAIN c.before) + 1) :
        /\ c.file_path = SuffixedPath(DocBase(c.fmt), k, DocSuffix(c.fmt))
        /\ c.file_path \notin DOMAIN c.before
        /\ \A j \in 1..(k - 1) :
               SuffixedPath(DocBase(c.fmt), j, DocSuffix(c.fmt)) \in DOMAIN c.before

C17_MissingOrEmptyReadsEmpty ==
    \A n \in 1..Len(io) :
        (/\ io[n].op = "read"
         /\ (io[n].path \in DOMAIN io[n].before => io[n].before[io[n].path].st = "empty"))
        => (io[n].outcome = "ok" /\ io[n].value = EmptyMap)

\* an empty JSON file and a missing YAML file, both read as {}
C17_Witness ==
    /\ \E n \in 1..Len(io) :
          /\ io[n].op = "read" /\ io[n].fmt = "json"
          /\ io[n].path \in DOMAIN io[n].before
          /\ io[n].before[io[n].path].st = "empty"
          /\ io[n].value = EmptyMap
    /\ \E n \in 1..Len(io) :
          /\ io[n].op = "read" /\ io[n].fmt = "yaml"
          /\ io[n].path \notin DOMAIN io[n].before
          /\ io[n].value = EmptyMap

(***************************************************************************)
(* C18: a document write with no_overwrite changes the content of no       *)
(* existing file; when the target exists, the document is written to the   *)
(* first free path base_k+suffix, k = 1, 2, ..., and reads back from       *)
(* there.  Stated for the documents the format represents.                 *)
(***************************************************************************)
C18_NoOverwriteWritesToFreePath ==
    \A n \in 1..Len(io) :
        LET c == io[n] IN
        (c.op = "write" /\ c.no_overwrite /\ Representable(c.fmt, c.doc)) =>
            /\ \A p \in DOMAIN c.before : p \in DOMAIN c.after /\ c.after[p] = c.before[p]
            /\ c.path \in DOMAIN c.before =>
                  /\ c.outcome = "ok"
                  /\ FirstFreePath(c)
                  /\ ReadBack(c.fmt, c.after, c.file_path).value = c.doc

\* the same statement for str arguments only, which the writers satisfy
C18_StrArguments ==
    \A n \in 1..Len(io) :
        LET c == io[n] IN
        (/\ c.op = "write" /\ c.no_overwrite /\ Representable(c.fmt, c.doc)
         /\ c.path_type = "str") =>
            /\ \A p \in DOMAIN c.before : p \in DOMAIN c.after /\ c.after[p] = c.before[p]
            /\ c.path \in DOMAIN c.before =>
                  /\ c.outcome = "ok"
                  /\ FirstFreePath(c)
                  /\ ReadBack(c.fmt, c.after, c.file_path).value = c.doc

(***************************************************************************)
(* Vocabulary of the root properties.                                      *)
(***************************************************************************)
\* the folders of the container of call c, before and after it
RootsBefore(c) == c.before[c.module].roots

RootsAfter(c) == c.after[c.module].roots

\* call c is an exact-path call on a path that exists
OnExistingPath(c) == ~c.only_container /\ c.path.child \in DOMAIN RootsBefore(c)

\* call c creates a root
CreatesRoot(c) == c.only_container \/ c.path.child \notin DOMAIN RootsBefore(c)

(***************************************************************************)
(* C19, as amended: main(path, path_is_only_to_container=False) on a path  *)
(* that exists changes nothing on disk, even if the directory lacks part   *)
(* of the root layout, and returns the path of that same directory:        *)
(* singleton_storage_fns.main returns the path as given,                   *)
(* persistent_storage_fns.main returns it resolved to its absolute form.   *)
(***************************************************************************)
C19_ExistingPathUntouched ==
    \A n \in 1..Len(mains) :
        LET c == mains[n] IN
        OnExistingPath(c) =>
            /\ c.after = c.before
            /\ c.returned.child = c.path.child
            /\ (c.module = "ssf" => c.returned = c.path)
            /\ (c.module = "pss" => c.returned.abs)
            /\ (c.path.abs => c.returned = c.path)

\* both modules called with a relative path on a folder that has no
\* subfolder of the layout
C19_Witness ==
    /\ Len(mains) = 2
    /\ mains[1].module = "ssf" /\ mains[2].module = "pss"
    /\ \A n \in 1..2 :
          /\ OnExistingPath(mains[n])
          /\ ~mains[n].path.abs
          /\ ~RootsBefore(mains[n])[mains[n].path.child].old_yamls
          /\ ~RootsAfter(mains[n])[mains[n].path.child].old_yamls

\* C19 as stated: the returned path is the path given, and nothing changes
C19_ReturnsPathGiven ==
    \A n \in 1..Len(mains) :
        OnExistingPath(mains[n]) =>
            /\ mains[n].after = mains[n].before
            /\ mains[n].returned = mains[n].path

(***************************************************************************)
(* C20: whenever singleton_storage_fns.main creates a root (an exact path  *)
(* that did not exist, or any container call), the returned path is a      *)
(* directory that did not exist before the call and that holds the four    *)
(* documents, each reading back as the empty mapping, and the two          *)
(* subfolders; the roots already in the container are unchanged.           *)
(***************************************************************************)
C20_CreatedRootIsFreshAndComplete ==
    \A n \in 1..Len(mains) :
        LET c == mains[n] IN
        (c.module = "ssf" /\ CreatesRoot(c)) =>
            /\ c.returned.child \notin DOMAIN RootsBefore(c)
            /\ c.returned.child \in DOMAIN RootsAfter(c)
            /\ LET d == RootsAfter(c)[c.returned.child] IN
                  /\ d.dir
                  /\ \A doc \in {d.main, d.shared, d.tree, d.db} :
                        DocExists(doc) /\ LoadDoc(doc) = EmptyMap
                  /\ d.old_yamls
                  /\ d.files_dir
            /\ \A r \in DOMAIN RootsBefore(c) : RootsAfter(c)[r] = RootsBefore(c)[r]
            /\ c.after.pss = c.before.pss

\* a second container call with the same label, next to the first root and
\* to a folder with a filled main.yaml
C20_Witness ==
    /\ Len(mains) = 2
    /\ mains[1].module = "ssf" /\ mains[1].only_container
    /\ mains[2].module = "ssf" /\ mains[2].only_container
    /\ mains[2].semantic_id = mains[1].semantic_id
    /\ mains[1].returned.child \in DOMAIN RootsBefore(mains[2])
    /\ mains[2].returned.child # mains[1].returned.child
    /\ \E r \in DOMAIN RootsBefore(mains[2]) :
          LoadDoc(RootsBefore(mains[2])[r].main) = FilledConfig

(***************************************************************************)
(* Vocabulary of the setup properties.                                     *)
(***************************************************************************)
\* the root a setup call ran on, before and after it
RootBefore(c) == RootsBefore(c)[c.path.child]

RootAfter(c) == RootsAfter(c)[c.path.child]

\* the documents and the subfolders of the layout of a module
DocFields(module) ==
    IF module = "ssf" THEN {"main", "shared", "tree", "db"} ELSE {"main", "db"}

FolderFields(module) ==
    IF module = "ssf" THEN {"old_yamls", "files_dir"}
    ELSE {"old_yamls", "pickles_and_such", "symlink_tree", "write_only_tree"}

(***************************************************************************)
(* C21: setup leaves every existing document with its content and every    *)
(* existing subfolder in place, creates only what is missing (a missing    *)
(* document as {}, a missing subfolder), and a second setup changes        *)
(* nothing: setup;setup leaves the state setup leaves.                     *)
(***************************************************************************)
C21_SetupIdempotent ==
    \A n \in 1..Len(mains) :
        LET c == mains[n] IN
        c.op = "setup" =>
            /\ \A f \in DocFields(c.module) :
                  IF DocExists(RootBefore(c)[f])
                  THEN RootAfter(c)[f] = RootBefore(c)[f]
                  ELSE DocExists(RootAfter(c)[f]) /\ LoadDoc(RootAfter(c)[f]) = EmptyMap
            /\ \A f \in FolderFields(c.module) : RootAfter(c)[f]
            /\ RootAfter(c).dir
            /\ (c.module = "ssf" => RootAfter(c).files = RootBefore(c).files)
            /\ \A m \in Modules : m # c.module => c.after[m] = c.before[m]
            /\ (n > 1 /\ mains[n - 1].op = "setup" /\ mains[n - 1].module = c.module)
                  => c.after = c.before

\* setup twice on a root with a filled main.yaml, no tiny_db.json and no
\* old_yamls/
C21_Witness ==
    /\ Len(mains) = 2
    /\ mains[1].op = "setup" /\ mains[2].op = "setup"
    /\ mains[1].module = "ssf" /\ mains[2].module = "ssf"
    /\ LoadDoc(RootBefore(mains[1]).main) = FilledConfig
    /\ ~DocExists(RootBefore(mains[1]).db)
    /\ ~RootBefore(mains[1]).old_yamls
    /\ LoadDoc(RootAfter(mains[2]).main) = FilledConfig
    /\ DocExists(RootAfter(mains[2]).db)
    /\ RootAfter(mains[2]).old_yamls

(***************************************************************************)
(* Vocabulary: the object files the last SimpleMLStorage.save wrote.       *)
(***************************************************************************)
SaveWrites == IF slast.op = "save" THEN slast.writes ELSE <<>>

\* C22: no storage operation silently overwrites user data: every object
\* file SimpleMLStorage.save writes under files/ is written at a path that
\* did not exist immediately before the write.
C22_NoSilentOverwrite ==
    \A i \in 1..Len(SaveWrites) : ~SaveWrites[i].existed

\* C23: change_phase and save_checkpoint of a store on which no setup has
\* run raise an error and leave the store's memory and the disk as they were.
C23_NotInitializedBeforeSetup ==
    [][(/\ mem.project_path = "None"
        /\ now' = now + 1
        /\ last'.op \in {"change_phase", "save_checkpoint"})
       => (/\ last'.outcome # "ok"
           /\ mem' = mem
           /\ disk' = disk)]_vars

\* the SimpleMLStorage half of C23: load and save before setup raise
\* RuntimeError and change neither the singleton nor the disk
C23_SimpleLoadSaveRaise ==
    (slast.op \in {"load", "save"} /\ slast.mem.storage_path = "None")
    => (/\ slast.outcome = "RuntimeError"
        /\ simple = slast.mem
        /\ sroots = slast.roots)

(***************************************************************************)
(* Vocabulary: the starts of name novel_start_of_folder can build, k * '#' *)
(* then the counter.                                                       *)
(***************************************************************************)
OverflowPrefixes == {"", "#", "##"}

\* the semantic ids of the created folders whose name starts with prefix
\* and counter
CreatedWithStart(prefix, counter) ==
    {semantic_id \in Labels : FolderName(prefix, counter, semantic_id) \in returned}

\* C24: no two folders novel_start_of_folder created in one parent have the
\* same start of name ('#'-prefix plus counter), whatever their semantic ids.
C24_UniqueStartOfName ==
    \A prefix \in OverflowPrefixes : \A counter \in CounterFloor..CounterStart :
        Cardinality(CreatedWithStart(prefix, counter)) <= 1

\* C25: with exactly one name of the base-62 namespace free in the parent,
\* novel_folder_anum terminates from every random start, returns that name,
\* and makes at most 62^digit_num probes.
C25_ReturnsTheFreeName ==
    /\ <>(anum.returned # "None")
    /\ [](anum.probes <= max_num(anum.digit_num))
    /\ [](anum.returned # "None" =>
            /\ anum.returned = anum.free
            /\ anum.returned \in anum.parent)

\* the start was the number after the free one: every name was probed and
\* the numbers wrapped around
C25_Witness ==
    /\ anum.returned = anum.free
    /\ anum.probes = max_num(anum.digit_num)
    /\ anum.n < anum.start

(***************************************************************************)
(* Vocabulary: the leaves of a file tree under root -> "files/", and the   *)
(* file tree persisted in a root.                                          *)
(***************************************************************************)
Leaves(file_tree) == Get(Get(file_tree, "root", EmptyMap), "files/", EmptyMap)

PersistedLeaves(r) == Leaves(LoadDoc(disk[r].tree))

\* every file a save_checkpoint wrote in root r has a leaf with its size
WritesRecorded(r, file_tree) ==
    \A f \in DOMAIN pickled[r] :
        /\ Has(Leaves(file_tree), f)
        /\ Leaves(file_tree)[f].size_bytes = getsize(Pickle(pickled[r][f]))

\* C26: after a successful save_checkpoint every file any save_checkpoint
\* wrote in that root has a leaf carrying its byte size, in the store's file
\* tree and in the persisted one, and no step removes a leaf of a persisted
\* file tree, external deletions of the files included.
C26_FileTreeRecordsWrites ==
    /\ [](SavedOk => /\ WritesRecorded(last.root, mem.file_tree)
                     /\ WritesRecorded(last.root, LoadDoc(disk[last.root].tree)))
    /\ [][\A r \in Roots : \A f \in DOMAIN PersistedLeaves(r) :
             f \in DOMAIN Leaves(LoadDoc(disk'[r].tree))]_vars

(***************************************************************************)
(* Vocabulary: the last call was a save_checkpoint of either store, open;  *)
(* the files of the root it wrote to.                                      *)
(***************************************************************************)
AnySave ==
    /\ last.op \in {"save_checkpoint", "project_save_checkpoint"}
    /\ last.root # "None"

FilesOfLastRoot ==
    IF last.op = "save_checkpoint" THEN disk[last.root].files
    ELSE container[last.root].files

\* C27: every object handed to save_checkpoint that has the prepare_for_save
\* hook has had it invoked, what was serialized is the object as the hook
\* left it, and every picklable object without the hook was serialized.
C27_HookBeforeSerialization ==
    AnySave =>
        \A role \in DOMAIN last.objects :
            LET o == last.objects[role] IN
            /\ o.hook => o.ready
            /\ Has(last.written, role) =>
                   FilesOfLastRoot[last.written[role]] = Pickle(o)
            /\ (~o.hook /\ o.picklable) => Has(last.written, role)

(***************************************************************************)
(* Vocabulary: the checkpoint index persisted in a root of either store.   *)
(***************************************************************************)
PersistedIndex(r) == LoadDoc(disk[r].db)

ProjectPersistedIndex(r) == LoadDoc(container[r].db)

\* C28: an entry of a persisted checkpoint index is never removed, and it is
\* changed only by a save_checkpoint of its name on its root: the set of
\* checkpoint names never shrinks.
C28_EntriesKept ==
    [][/\ \A r \in Roots : \A n \in DOMAIN PersistedIndex(r) :
             /\ Has(LoadDoc(disk'[r].db), n)
             /\ LoadDoc(disk'[r].db)[n] # PersistedIndex(r)[n] =>
                    /\ last'.op = "save_checkpoint"
                    /\ last'.name = n
                    /\ last'.root = r
       /\ \A r \in DOMAIN container : \A n \in DOMAIN ProjectPersistedIndex(r) :
             /\ Has(LoadDoc(container'[r].db), n)
             /\ LoadDoc(container'[r].db)[n] # ProjectPersistedIndex(r)[n] =>
                    /\ last'.op = "project_save_checkpoint"
                    /\ last'.name = n
                    /\ last'.root = r
      ]_vars

\* C29: once the names of a band are used up the allocator prepends one '#'
\* and starts again at 999: a label that has a folder in a '#' band has the
\* folder with counter 999 of that band.
C29_OverflowBandStartsAt999 ==
    \A prefix \in OverflowPrefixes \ {""} : \A semantic_id \in Labels :
        (\E counter \in CounterFloor..CounterStart :
            FolderName(prefix, counter, semantic_id) \in returned)
        => FolderName(prefix, CounterStart, semantic_id) \in returned

(***************************************************************************)
(* Vocabulary: the un-prefixed counters of a label that are free in the    *)
(* parent.                                                                 *)
(***************************************************************************)
FreeCounters(semantic_id) ==
    {counter \in CounterFloor..CounterStart :
        FolderName("", counter, semantic_id) \notin parent}

\* the largest of them: every un-prefixed name above it is taken
LargestFreeCounter(semantic_id) ==
    CHOOSE counter \in FreeCounters(semantic_id) :
        \A above \in (counter + 1)..CounterStart :
            FolderName("", above, semantic_id) \in parent

\* the label of the call this step makes, when it is a call
CallOf(semantic_id) == allocs'[semantic_id] = allocs[semantic_id] + 1

\* C30: while an un-prefixed name of the label is free, the call creates
\* and returns the free name with the largest counter; when nothing was
\* ever removed from the parent that is counter 1000 - k in the k-th call
\* with the label, and a name whose folder was removed from outside is
\* handed out again before any lower counter.
C30_LargestFreeCounter ==
    [][\A semantic_id \in Labels :
          (CallOf(semantic_id) /\ FreeCounters(semantic_id) # {}) =>
             LET folder_path ==
                     FolderName("", LargestFreeCounter(semantic_id), semantic_id)
             IN  /\ parent' = parent \cup {folder_path}
                 /\ returned' = returned \cup {folder_path}
                 /\ Rmdirs = 0 =>
                        folder_path = FolderName("", CounterStart - allocs[semantic_id],
                                                 semantic_id)
      ]_vars

\* the folder 997_unet was removed after lower counters were in use, and the
\* next call with the label has handed 997_unet out again
C30_Witness ==
    /\ allocs["unet"] = 6
    /\ Cardinality(returned) = 5
    /\ FolderName("", CounterStart - 2, "unet") \in parent
    /\ FolderName("", CounterStart - 4, "unet") \in parent
    /\ FolderName("", CounterStart - 5, "unet") \notin parent

(***************************************************************************)
(* Vocabulary: the name the call builds from the k-th number of the cyclic *)
(* order that starts at the random draw.                                   *)
(***************************************************************************)
AnumNumber(k) == (anum.start + k) % max_num(anum.digit_num)

AnumBase(k) == _to_base62(AnumNumber(k), anum.digit_num)

AnumName(k) == AnumBase(k) \o anum.suffix

\* k is the first place of the cyclic order whose name was free at the call
FirstFree(k) ==
    /\ AnumName(k) \notin anum.initial
    /\ \A j \in 0..(k - 1) : AnumName(j) \in anum.initial

AnumReturned == anum.returned \notin {"None", ""}

\* C31: the name novel_folder_anum and novel_filename_anum return is the
\* first in the cyclic order n, n+1, ... modulo 62^digit_num from the random
\* draw n that did not exist; it is a base-62 string of exactly digit_num
\* characters, followed by the suffix in novel_filename_anum.
C31_FirstFreeInCyclicOrder ==
    AnumReturned =>
        \E k \in 0..(max_num(anum.digit_num) - 1) :
            /\ FirstFree(k)
            /\ anum.returned = AnumName(k)
            /\ anum.probes = k + 1
            /\ Len(AnumBase(k)) = anum.digit_num
            /\ Len(anum.returned) = anum.digit_num + Len(anum.suffix)

\* the draw and the names after it were taken, the numbers wrapped around,
\* and a two-character name with a leading zero was returned
C31_Witness ==
    /\ AnumReturned
    /\ anum.digit_num = 2
    /\ anum.kind = "filename" /\ anum.suffix = ".pkl"
    /\ anum.start = max_num(2) - 1
    /\ anum.returned = "02.pkl"

\* C31 as stated: the returned name has exactly digit_num characters
C31_ExactlyDigitNumCharacters ==
    AnumReturned => Len(anum.returned) = anum.digit_num

\* every one of the 62^digit_num names existed when novel_folder_anum was called
AllNamesTaken ==
    /\ anum.kind = "folder"
    /\ anum.digit_num >= 1
    /\ Cardinality(anum.initial) >= max_num(anum.digit_num)
    /\ \A k \in 0..(max_num(anum.digit_num) - 1) : AnumName(k) \in anum.initial

\* C32: when every name exists novel_folder_anum never returns and creates
\* nothing: after any number of probes it is still in the loop, at the next
\* number of the cyclic order, and the parent is as it was.
C32_ProbesForever ==
    AllNamesTaken =>
        /\ anum.returned = "None"
        /\ anum.parent = anum.initial
        /\ anum.n = AnumNumber(anum.probes)

\* every name was probed once, the numbers wrapped around to the draw, and
\* the draw was probed a second time
C32_Witness ==
    /\ AllNamesTaken
    /\ anum.start = 5
    /\ anum.probes = max_num(anum.digit_num) + 1
    /\ anum.n = 6
    /\ anum.returned = "None"

(***************************************************************************)
(* Vocabulary: process p has returned from a call of novel_start_of_folder. *)
(***************************************************************************)
RaceReturned(p) == conc.procs[p].pc = "idle" /\ conc.procs[p].calls > 0

\* C33: whatever the interleaving of two processes, no call of
\* novel_start_of_folder raises, and the path a call returned exists as a
\* directory; both processes may return the same path (the witness).
C33_NeitherCallRaises ==
    \A p \in Procs :
        /\ conc.procs[p].outcome = "ok"
        /\ RaceReturned(p) =>
               /\ conc.procs[p].returned # "None"
               /\ conc.procs[p].returned \in conc.listing

\* both processes, with the same label, found 998_unet absent before either
\* made it, and both returned it from their first call
C33_Witness ==
    \A p \in Procs :
        /\ RaceReturned(p)
        /\ conc.procs[p].calls = 1
        /\ conc.procs[p].returned = "998_unet"

\* C34: setup writes an empty document over one that holds data only in
\* executions in which the two processes' main/setup calls overlapped: in
\* every execution where one call ran after the other no data is lost.  The
\* overlapping execution that loses data exists (the witness).
C34_LossOnlyWhenOverlapping ==
    conc.lost => conc.overlap

\* process 2 had filled main.yaml in, and the write of process 1, which had
\* found main.yaml absent before, has replaced it by {}
C34_Witness ==
    /\ conc.lost
    /\ conc.populates = 1
    /\ conc.procs[2].pc = "opened"
    /\ conc.procs[1].pc = "test" /\ conc.procs[1].i = 2
    /\ conc.root.main = DumpDoc(EmptyMap)

\* the checkpoint index on the disk of the root the two sessions share
SessionIndex == LoadDoc(conc.root.db)

\* C35: every save_checkpoint that returns rewrites the whole index on disk
\* from the in-memory copy of its own session, whatever the other session
\* has stored there: after it the index on disk is that copy, entry by entry.
C35_IndexRewrittenFromMemory ==
    conc.last.op = "save_checkpoint" /\ conc.last.outcome = "ok" =>
        SessionIndex = conc.sess[conc.last.p].checkpoint_db

\* both sessions are open, session 1 has saved "c" and session 2 "c_1", both
\* calls returned, and the entry of "c" is gone from the index on disk
C35_Witness ==
    /\ conc.acked = {"c", "c_1"}
    /\ conc.last = [NoSessionCall EXCEPT !.op = "save_checkpoint", !.p = 2, !.name = "c_1"]
    /\ Has(conc.sess[1].checkpoint_db, "c")
    /\ ~Has(SessionIndex, "c")
    /\ Has(SessionIndex, "c_1")

\* the phase history in the shared state on the disk of the shared root
SessionHistory == Get(LoadDoc(conc.root.shared), "phase_changes", <<>>)

\* C36: initial_setup on a root whose shared state holds a current phase
\* leaves the session in that phase; when no two sessions were ever open at
\* once, that phase is the argument of the last change_phase on the root; and
\* the first change_phase of the session appends a record whose from is the
\* phase the session restored.
C36_PhaseRestored ==
    /\ conc.last.op = "initial_setup" /\ conc.last.found # "None" =>
           /\ conc.sess[conc.last.p].current_phase = conc.last.found
           /\ ~conc.overlap /\ conc.lastChange # "None" => conc.last.found = conc.lastChange
    /\ /\ conc.last.op = "change_phase"
       /\ conc.restored[conc.last.p] # "None"
       /\ conc.changes[conc.last.p] = 1
       => /\ SessionHistory # <<>>
          /\ SessionHistory[Len(SessionHistory)].from = conc.restored[conc.last.p]
          /\ SessionHistory[Len(SessionHistory)].to = conc.last.name

\* one session moved the root to training and ended; the next one found
\* training, and its first change_phase recorded training -> setup
C36_Witness ==
    /\ ~conc.overlap
    /\ conc.last.op = "change_phase"
    /\ conc.restored[conc.last.p] = "training"
    /\ conc.changes[conc.last.p] = 1
    /\ Len(SessionHistory) = 2
    /\ SessionHistory[1].to = "training"
    /\ SessionHistory[2].from = "training"
    /\ SessionHistory[2].to = "setup"

\* shared_storage['total_checkpoints'], 0 where the key is missing
TotalCheckpoints(shared_storage) == Get(shared_storage, "total_checkpoints", 0)

IndexEntries(index) == Cardinality(DOMAIN index)

\* C37: in every state total_checkpoints is at least the number of entries of
\* the checkpoint index, in the memory of the store and in the documents of
\* every root.
C37_CounterCoversIndex ==
    /\ TotalCheckpoints(mem.shared_storage) >= IndexEntries(mem.checkpoint_db)
    /\ \A r \in Roots :
           TotalCheckpoints(LoadDoc(disk[r].shared)) >= IndexEntries(PersistedIndex(r))

\* the second half of C37: a save_checkpoint that returns on a name the index
\* holds adds one to the counter and leaves the names of the index as they are
C37_ResaveCountsAgain ==
    [][last'.op = "save_checkpoint" /\ last'.outcome = "ok" /\ Has(mem.checkpoint_db, last'.name)
          => /\ TotalCheckpoints(mem'.shared_storage) = TotalCheckpoints(mem.shared_storage) + 1
             /\ DOMAIN mem'.checkpoint_db = DOMAIN mem.checkpoint_db]_vars

\* backups/weights/model_wrapper.pkl of a SimpleMLStorage root
WeightsBackupPath == join(BackupsWeights, basename(ModelPath))

\* the save that just returned dumped a wrapper with a model
SavedWithModel ==
    /\ slast.op = "save"
    /\ slast.outcome = "ok"
    /\ slast.mem.model_wrapper.cls = "ModelWrapper"
    /\ slast.mem.model_wrapper.model # "None"

\* C38: once backups/weights/model_wrapper.pkl exists in a root, no step
\* changes its content, whatever is saved afterwards; and every save of a
\* wrapper with a model leaves that wrapper in files/model_wrapper.pkl and
\* a backup in place.
C38_BackupKeepsFirstSave ==
    [][/\ \A r \in DOMAIN sroots :
             WeightsBackupPath \in DOMAIN sroots[r].files =>
                 /\ r \in DOMAIN sroots'
                 /\ WeightsBackupPath \in DOMAIN sroots'[r].files
                 /\ sroots'[r].files[WeightsBackupPath] = sroots[r].files[WeightsBackupPath]
       /\ SavedWithModel' =>
             LET r == simple.storage_path IN
             /\ sroots'[r].files[ModelPath] = Pickle(simple.model_wrapper)
             /\ WeightsBackupPath \in DOMAIN sroots'[r].files
             /\ WeightsBackupPath \notin DOMAIN sroots[r].files =>
                    sroots'[r].files[WeightsBackupPath] = Pickle(simple.model_wrapper)]_vars

\* a second save of a wrapper with a model, after update_model: the file in
\* files/ holds the wrapper of this save, the backup the one of the first
C38_Witness ==
    /\ SavedWithModel
    /\ LET r == slast.mem.storage_path IN
       /\ WeightsBackupPath \in DOMAIN slast.roots[r].files
       /\ sroots[r].files[ModelPath] = Pickle(slast.mem.model_wrapper)
       /\ sroots[r].files[WeightsBackupPath] # sroots[r].files[ModelPath]
       /\ Unpickle(sroots[r].files[WeightsBackupPath]).epochs
              < Unpickle(sroots[r].files[ModelPath]).epochs

\* C39: AllPaths.IS_FULLY_INITIALIZED is False before any call of
\* set_files_folder and True after every one of them.
C39_FlagTellsPathsAreSet ==
    conc.cls.IS_FULLY_INITIALIZED = (IF conc.set_calls > 0 THEN "True" ELSE "False")

\* the flag as the code leaves it: False in every state, with the paths of
\* the instance set or not
C39_FlagStaysFalse ==
    /\ conc.cls.IS_FULLY_INITIALIZED = "False"
    /\ InstanceAttr(conc, "IS_FULLY_INITIALIZED") = "False"
    /\ conc.set_calls > 0 => \A attr \in PathAttributes : InstanceAttr(conc, attr) # "None"

====
